---- MODULE Spec2Model ----
(***************************************************************************)
(* A model of the Bitcoin P2P client / crawler / DNS seed of this          *)
(* repository.                                                             *)
(*                                                                         *)
(*   Spec     one session of BitcoinClient (p2p/p2p_client.rs): the state  *)
(*            after connect() + start_handshake(), then message_loop, one  *)
(*            action per outcome of one loop iteration.                    *)
(*   SpecInv  the same session when the peer announces long inventories.   *)
(*   SpecDb   the database actor (p2p/multhread.rs, p2p/database.rs) fed   *)
(*            by concurrent senders.                                       *)
(*   SpecOps  the same actor started on a database that holds records.     *)
(*   SpecDrain, SpecLoad  the end of the actor; the database file.         *)
(*   SpecDns  the DNS responder (p2p/dns_server.rs) on a snapshot.         *)
(*   SpecSeed the control loop with responder, crawl and actor.            *)
(*   SpecCrawl, SpecCrawl2  the crawl command, one and two invocations.    *)
(*   SpecCodec  the wire decoders called on their own.                     *)
(*   SpecExit the exit command and the joins that end run.                 *)
(***************************************************************************)
EXTENDS Integers, Sequences, FiniteSets, TLC

VARIABLES
    \* ---- BitcoinClient (p2p/p2p_client.rs:64-72) and message_loop locals
    version_received,
    verack_received,
    handshake_complete,
    seen_inventory,     \* HashSet<[u8; 32]>
    getaddr_sent,       \* local of message_loop
    message_count,      \* local of message_loop
    session,            \* "running" | "ok" (message_loop returned Ok) | "err" (returned Err)
    sent,               \* frames written to the TcpStream, in order
    reads,              \* what read_message returned, per iteration that called it
    \* ---- database actor (p2p/multhread.rs) and PeerDatabase (p2p/database.rs)
    db,                 \* PeerDatabase.peers of the actor: address -> PeerInfo
    file,               \* content of the database file
    chan,               \* tokio mpsc channel of DbCommand
    db_pc,              \* where database_task stands
    db_cmd,             \* the command database_task is processing
    senders,            \* Sender handles not yet dropped
    now,                \* SystemTime::now() in seconds
    submitted,          \* every command accepted by the channel, in order
    received,           \* every command database_task received, with the time it was applied
    \* ---- the control loop (interactive.rs) and the DNS responder (p2p/dns_server.rs)
    peer_db,            \* client.peer_db, the PeerDatabase the control loop copies from
    dns_db,             \* the responder's Arc<RwLock<PeerDatabase>>: None before the dns command
    dns_pc,             \* "off" | "serving" (in the loop of run_dns_server) | "failed" (it returned Err)
    dns_req,            \* the datagram run_dns_server received last
    dns_replies,        \* the datagrams it sent in answer to it
    \* ---- the codec functions called on their own
    codec_in,           \* the bytes given to the function
    codec_count,        \* the count given to the encoder, None when a buffer is given
    codec_payload,      \* the payload given to a message parser, None otherwise
    codec_out,          \* what it returned
    \* ---- the crawl command's background threads (interactive.rs, p2p/multhread.rs)
    crawls,             \* per invocation: its candidates, probes, channel and database actor
    crawl_connected,    \* InteractiveCli.crawl_connected: Arc<Mutex<HashSet<SocketAddr>>>
    \* ---- InteractiveCli::run (interactive.rs)
    cli_pc              \* "prompt" (in the command loop) | "joining" (after it) | "returned"

session_vars == <<version_received, verack_received, handshake_complete,
                  seen_inventory, getaddr_sent, message_count, session, sent, reads>>
db_vars == <<db, file, chan, db_pc, db_cmd, senders, now, submitted, received>>
dns_vars == <<peer_db, dns_db, dns_pc, dns_req, dns_replies>>
codec_vars == <<codec_in, codec_count, codec_payload, codec_out>>
crawl_vars == <<crawls, crawl_connected>>
cli_vars == <<cli_pc>>
vars == <<session_vars, db_vars, dns_vars, codec_vars, crawl_vars, cli_vars>>

(***************************************************************************)
(* Bounds of the model                                                     *)
(***************************************************************************)
\* message_loop's cap is 500000 (p2p_client.rs:147); the model runs it with a small cap.
max_messages == 3
\* writes that can succeed in one loop iteration before the transport fails
WriteBudget == 2

Min(a, b) == IF a < b THEN a ELSE b

(***************************************************************************)
(* Wire codec                                                              *)
(***************************************************************************)
MAGIC == <<249, 190, 180, 217>>

\* A payload is kept in fields instead of single bytes:
\*   [t |-> "raw",  b |-> bytes]
\*   [t |-> "inv",  prefix |-> bytes of the count, items |-> 36-byte items, tail |-> stray bytes]
\*   [t |-> "addr", prefix |-> bytes of the count, entries |-> 30-byte entries, tail |-> stray bytes]
\* and a prefix is either one whole compact-size integer or all there is of the payload.
InvItemSize == 36
AddrEntrySize == 30

RawPayload(b) == [t |-> "raw", b |-> b]
EmptyPayload == RawPayload(<<>>)

PayloadLen(p) ==
    CASE p.t = "raw"  -> Len(p.b)
      [] p.t = "inv"  -> Len(p.prefix) + InvItemSize * Len(p.items) + p.tail
      [] p.t = "addr" -> Len(p.prefix) + AddrEntrySize * Len(p.entries) + p.tail

PayloadHead(p) == IF p.t = "raw" THEN p.b ELSE p.prefix

\* sha256d is collision-free in the model; the checksum is its first four bytes.
sha256d(payload) == <<"sha256d", payload>>
Checksum4(payload) == <<"sha256d[0..4]", payload>>

MessageHeader_new(command, payload) ==
    [magic |-> MAGIC, command |-> command,
     payload_size |-> PayloadLen(payload), checksum |-> Checksum4(payload)]

Frame(command, payload) == [header |-> MessageHeader_new(command, payload), payload |-> payload]

InventoryType_from_u32(value) ==
    CASE value = 0 -> "Error"
      [] value = 1 -> "Transaction"
      [] value = 2 -> "Block"
      [] value = 3 -> "FilteredBlock"
      [] value = 4 -> "CompactBlock"
      [] value = 1073741825 -> "WitnessTransaction"
      [] value = 1073741826 -> "WitnessBlock"
      [] value = 1073741827 -> "FilteredWitnessBlock"
      [] OTHER -> "Error"

InventoryType_as_u32(t) ==
    CASE t = "Error" -> 0
      [] t = "Transaction" -> 1
      [] t = "Block" -> 2
      [] t = "FilteredBlock" -> 3
      [] t = "CompactBlock" -> 4
      [] t = "WitnessTransaction" -> 1073741825
      [] t = "WitnessBlock" -> 1073741826
      [] t = "FilteredWitnessBlock" -> 1073741827

\* little-endian bytes of v, n of them
LeBytes(v, n) == [i \in 1..n |-> (v \div (256 ^ (i - 1))) % 256]

RECURSIVE FromLe(_)
FromLe(bytes) == IF bytes = <<>> THEN 0 ELSE Head(bytes) + 256 * FromLe(Tail(bytes))

\* a decoder that consumes nothing of a buffer it finds too short
parse_compact_size_ConsumesNone(data) ==
    IF data = <<>> THEN <<0, 0>>
    ELSE LET first_byte == data[1] IN
         CASE first_byte <= 252 -> <<first_byte, 1>>
           [] first_byte = 253 ->
                IF Len(data) >= 3 THEN <<FromLe(SubSeq(data, 2, 3)), 3>> ELSE <<0, 0>>
           [] first_byte = 254 ->
                IF Len(data) >= 5 THEN <<FromLe(SubSeq(data, 2, 5)), 5>> ELSE <<0, 0>>
           [] OTHER ->
                IF Len(data) >= 9 THEN <<FromLe(SubSeq(data, 2, 9)), 9>> ELSE <<0, 0>>

\* (value, consumed)
parse_compact_size(data) ==
    IF data = <<>> THEN <<0, 0>>
    ELSE LET first_byte == data[1] IN
         CASE first_byte <= 252 -> <<first_byte, 1>>
           [] first_byte = 253 ->
                IF Len(data) >= 3 THEN <<FromLe(SubSeq(data, 2, 3)), 3>> ELSE <<0, 1>>
           [] first_byte = 254 ->
                IF Len(data) >= 5 THEN <<FromLe(SubSeq(data, 2, 5)), 5>> ELSE <<0, 1>>
           [] OTHER ->
                IF Len(data) >= 9 THEN <<FromLe(SubSeq(data, 2, 9)), 9>> ELSE <<0, 1>>

\* an encoder that writes 0xFD itself in one byte
CompactSizeOf_OneByteFD(count) ==
    IF count <= 253 THEN <<count>>
    ELSE IF count <= 65535 THEN <<253>> \o LeBytes(count, 2)
    ELSE IF count \div 65536 <= 65535 THEN <<254>> \o LeBytes(count, 4)
    ELSE <<255>> \o LeBytes(count, 8)

\* the count prefix written by build_getdata_payload
CompactSizeOf(count) ==
    IF count < 253 THEN <<count>>
    ELSE IF count <= 65535 THEN <<253>> \o LeBytes(count, 2)
    ELSE IF count \div 65536 <= 65535 THEN <<254>> \o LeBytes(count, 4)   \* count <= 0xFFFFFFFF
    ELSE <<255>> \o LeBytes(count, 8)

RECURSIVE ParseInvLoop(_, _, _, _, _)
ParseInvLoop(payload, count, offset, k, items) ==
    IF k >= count \/ offset + InvItemSize > PayloadLen(payload) THEN items
    ELSE LET raw == payload.items[(offset - Len(payload.prefix)) \div InvItemSize + 1] IN
         ParseInvLoop(payload, count, offset + InvItemSize, k + 1,
                      Append(items, [inv_type |-> InventoryType_from_u32(raw.inv_type_raw),
                                     hash |-> raw.hash]))

\* a parser that reads items for as long as the payload lasts
parse_inv_message_IgnoresCount(payload) ==
    IF PayloadLen(payload) = 0 THEN <<>>
    ELSE LET cs == parse_compact_size(PayloadHead(payload)) IN
         IF cs[1] = 0 \/ payload.t # "inv" THEN <<>>
         ELSE ParseInvLoop(payload, Len(payload.items) + 1, cs[2], 0, <<>>)

parse_inv_message(payload) ==
    IF PayloadLen(payload) = 0 THEN <<>>
    ELSE LET cs == parse_compact_size(PayloadHead(payload)) IN
         IF cs[1] = 0 \/ payload.t # "inv" THEN <<>>
         ELSE ParseInvLoop(payload, cs[1], cs[2], 0, <<>>)

build_getdata_payload(items) ==
    [t |-> "inv",
     prefix |-> CompactSizeOf(Len(items)),
     items |-> [i \in 1..Len(items) |->
                   [inv_type_raw |-> InventoryType_as_u32(items[i].inv_type),
                    hash |-> items[i].hash]],
     tail |-> 0]

\* IPv4 is told from IPv6 by the ::ffff: prefix of the 16-byte address
V4Prefix == <<0, 0, 0, 0, 0, 0, 0, 0, 0, 0, 255, 255>>

SocketAddrOf(ip_bytes, port_bytes) ==
    LET port == port_bytes[1] * 256 + port_bytes[2] IN
    IF SubSeq(ip_bytes, 1, 12) = V4Prefix
    THEN [v |-> "V4", ip |-> SubSeq(ip_bytes, 13, 16), port |-> port]
    ELSE [v |-> "V6", ip |-> ip_bytes, port |-> port]

AddrShowLimit == 10

RECURSIVE ParseAddrLoop(_, _, _, _, _)
ParseAddrLoop(payload, addresses_to_show, offset, i, addresses) ==
    IF i >= addresses_to_show \/ offset + AddrEntrySize > PayloadLen(payload) THEN addresses
    ELSE LET e == payload.entries[(offset - Len(payload.prefix)) \div AddrEntrySize + 1] IN
         ParseAddrLoop(payload, addresses_to_show, offset + AddrEntrySize, i + 1,
                       Append(addresses, SocketAddrOf(e.ip, e.port)))

\* a parser that decodes as many entries as the count declares
parse_addr_message_ShowsAll(payload) ==
    IF PayloadLen(payload) = 0 THEN <<>>
    ELSE LET cs == parse_compact_size(PayloadHead(payload)) IN
         IF cs[1] = 0 \/ payload.t # "addr" THEN <<>>
         ELSE ParseAddrLoop(payload, cs[1], cs[2], 0, <<>>)

parse_addr_message(payload) ==
    IF PayloadLen(payload) = 0 THEN <<>>
    ELSE LET cs == parse_compact_size(PayloadHead(payload)) IN
         IF cs[1] = 0 \/ payload.t # "addr" THEN <<>>
         ELSE ParseAddrLoop(payload, Min(cs[1], AddrShowLimit), cs[2], 0, <<>>)

(***************************************************************************)
(* BitcoinClient: one iteration of message_loop on the client record       *)
(*   c.budget  writes that still succeed in this iteration                 *)
(*   c.failed  an io::Error was returned with `?`                          *)
(***************************************************************************)
TxRequestLimit == 10
BlockRequestLimit == 3
PingEchoMin == 8

send_message(c, command, payload) ==
    IF c.failed THEN c
    ELSE IF c.budget = 0 THEN [c EXCEPT !.failed = TRUE]
    ELSE [c EXCEPT !.sent = Append(@, Frame(command, payload)), !.budget = @ - 1]

\* RequestUnseen with the transaction cap left out
RequestUnseen_Uncapped(item, items_to_request) ==
    CASE item.inv_type \in {"Transaction", "WitnessTransaction"} -> Append(items_to_request, item)
      [] item.inv_type \in {"Block", "WitnessBlock"} ->
            IF Len(items_to_request) < BlockRequestLimit
            THEN Append(items_to_request, item) ELSE items_to_request
      [] item.inv_type = "CompactBlock" -> Append(items_to_request, item)
      [] OTHER -> items_to_request

\* the match on item.inv_type of handle_inv_message: the batch after an unseen item
RequestUnseen(item, items_to_request) ==
    CASE item.inv_type \in {"Transaction", "WitnessTransaction"} ->
            IF Len(items_to_request) < TxRequestLimit
            THEN Append(items_to_request, item) ELSE items_to_request
      [] item.inv_type \in {"Block", "WitnessBlock"} ->
            IF Len(items_to_request) < BlockRequestLimit
            THEN Append(items_to_request, item) ELSE items_to_request
      [] item.inv_type = "CompactBlock" -> Append(items_to_request, item)
      [] OTHER -> items_to_request

\* MarkSeen with the insert left out
MarkSeen_Forgets(seen, item) == seen

\* what handle_inv_message does to the seen-set when it meets an unseen item
MarkSeen(seen, item) == seen \cup {item.hash}

RECURSIVE InvLoop(_, _, _, _)
InvLoop(inventory_items, i, seen, items_to_request) ==
    IF i > Len(inventory_items)
    THEN [seen |-> seen, items_to_request |-> items_to_request]
    ELSE LET item == inventory_items[i] IN
         IF item.hash \notin seen
         THEN InvLoop(inventory_items, i + 1, MarkSeen(seen, item),
                      RequestUnseen(item, items_to_request))
         ELSE InvLoop(inventory_items, i + 1, seen, items_to_request)

\* a handler that remembers only the items it puts into the getdata batch
handle_inv_message_SeenIfRequested(c, payload) ==
    LET inventory_items == parse_inv_message(payload) IN
    IF inventory_items = <<>> THEN c
    ELSE LET r == InvLoop(inventory_items, 1, c.seen_inventory, <<>>)
             c1 == [c EXCEPT !.seen_inventory =
                       @ \cup {r.items_to_request[i].hash : i \in 1..Len(r.items_to_request)}]
         IN  IF r.items_to_request # <<>>
             THEN send_message(c1, "getdata", build_getdata_payload(r.items_to_request))
             ELSE c1

handle_inv_message(c, payload) ==
    LET inventory_items == parse_inv_message(payload) IN
    IF inventory_items = <<>> THEN c
    ELSE LET r == InvLoop(inventory_items, 1, c.seen_inventory, <<>>)
             c1 == [c EXCEPT !.seen_inventory = r.seen]
         IN  IF r.items_to_request # <<>>
             THEN send_message(c1, "getdata", build_getdata_payload(r.items_to_request))
             ELSE c1

\* handle_ping echoing the 8-byte nonce instead of the payload
handle_ping_NonceOnly(c, payload) ==
    IF PayloadLen(payload) >= PingEchoMin
    THEN send_message(c, "pong", RawPayload(SubSeq(payload.b, 1, PingEchoMin))) ELSE c

\* the "ping" arm
handle_ping(c, payload) ==
    IF PayloadLen(payload) >= PingEchoMin THEN send_message(c, "pong", payload) ELSE c

\* the "addr" arm: the addresses are parsed and counted, nothing else
handle_addr(c, payload) ==
    LET addresses == parse_addr_message(payload) IN c

handle_message(c, command, payload) ==
    CASE command = "version" ->
            send_message([c EXCEPT !.version_received = TRUE], "verack", EmptyPayload)
      [] command = "verack" -> [c EXCEPT !.verack_received = TRUE]
      [] command = "ping" -> handle_ping(c, payload)
      [] command = "pong" -> c
      [] command = "inv" -> handle_inv_message(c, payload)
      [] command = "addr" -> handle_addr(c, payload)
      [] command \in {"alert", "sendheaders", "sendcmpct", "feefilter"} -> c
      [] OTHER -> c

\* LatchHandshake that does not wait for the peer's verack
LatchHandshake_OnVersion(c) ==
    IF c.version_received /\ ~c.handshake_complete
    THEN [c EXCEPT !.handshake_complete = TRUE] ELSE c

\* LatchHandshake that does not wait for the peer's version
LatchHandshake_OnVerack(c) ==
    IF c.verack_received /\ ~c.handshake_complete
    THEN [c EXCEPT !.handshake_complete = TRUE] ELSE c

\* message_loop, p2p_client.rs:168-172
LatchHandshake(c) ==
    IF c.version_received /\ c.verack_received /\ ~c.handshake_complete
    THEN [c EXCEPT !.handshake_complete = TRUE] ELSE c

\* RequestAddresses that never sets getaddr_sent
RequestAddresses_NoOneShot(c) ==
    IF c.handshake_complete /\ ~c.getaddr_sent
    THEN send_message(c, "getaddr", EmptyPayload)
    ELSE c

\* message_loop, p2p_client.rs:174-178
RequestAddresses(c) ==
    IF c.handshake_complete /\ ~c.getaddr_sent
    THEN LET c1 == send_message(c, "getaddr", EmptyPayload) IN
         IF c1.failed THEN c1 ELSE [c1 EXCEPT !.getaddr_sent = TRUE]
    ELSE c

\* the Ok(Some((header, payload))) arm of message_loop
OnMessage(c, command, payload) ==
    LET c1 == handle_message(c, command, payload) IN
    IF c1.failed THEN c1 ELSE RequestAddresses(LatchHandshake(c1))

\* inbound bytes as read_message finds them:
\*   hdr     "ok" (24 header bytes read) | "would_block" | "eof"
\*   header  the MessageHeader those bytes decode to
\*   body    the payload the frame carries, avail the bytes of it that arrive
read_message(w) ==
    LET none == [res |-> "none", why |-> "", command |-> "", payload |-> EmptyPayload]
        err(why) == [none EXCEPT !.res = "err", !.why = why]
    IN  IF w.hdr = "would_block" THEN none
        ELSE IF w.hdr # "ok" THEN err("io")
        ELSE IF w.header.magic # MAGIC THEN err("Invalid magic bytes")
        ELSE IF w.header.payload_size > 0
             THEN IF w.avail < w.header.payload_size THEN err("io")
                  ELSE IF w.header.checksum # Checksum4(w.body) THEN err("Invalid checksum")
                  ELSE [res |-> "msg", why |-> "", command |-> w.header.command,
                        payload |-> w.body]
             ELSE [res |-> "msg", why |-> "", command |-> w.header.command,
                   payload |-> EmptyPayload]

Client ==
    [version_received |-> version_received, verack_received |-> verack_received,
     handshake_complete |-> handshake_complete, seen_inventory |-> seen_inventory,
     getaddr_sent |-> getaddr_sent, sent |-> sent, budget |-> 0, failed |-> FALSE]

(***************************************************************************)
(* PeerDatabase (p2p/database.rs)                                          *)
(*   Option<T>: None is <<>>, Some(v) is <<v>>                             *)
(***************************************************************************)
None == <<>>
Some(v) == <<v>>

PeerStatus == {"NeverTried", "ConnectedRecently", "Unreachable", "Banned"}

\* PeerDatabase::default()
EmptyDb == <<>>

\* a registration that starts the record of a known address afresh
register_peer_StartsAfresh(peers, addr, services, t) ==
    LET entry == [address |-> addr, last_seen |-> Some(t), last_connected |-> None,
                  status |-> "NeverTried",
                  services |-> IF services # None \/ addr \notin DOMAIN peers THEN services
                               ELSE peers[addr].services]
    IN  [a \in DOMAIN peers \cup {addr} |-> IF a = addr THEN entry ELSE peers[a]]

\* a registration that leaves the last_seen of a known address as it was
register_peer_StaleSeen(peers, addr, services, t) ==
    LET inserted == IF addr \in DOMAIN peers THEN peers[addr]
                    ELSE [address |-> addr, last_seen |-> Some(t), last_connected |-> None,
                          status |-> "NeverTried", services |-> services]
        entry == IF services # None THEN [inserted EXCEPT !.services = services] ELSE inserted
    IN  [a \in DOMAIN peers \cup {addr} |-> IF a = addr THEN entry ELSE peers[a]]

\* a registration that stores whatever services it is given
register_peer_ResetsServices(peers, addr, services, t) ==
    LET inserted == IF addr \in DOMAIN peers THEN peers[addr]
                    ELSE [address |-> addr, last_seen |-> Some(t), last_connected |-> None,
                          status |-> "NeverTried", services |-> services]
        entry == [inserted EXCEPT !.last_seen = Some(t), !.services = services]
    IN  [a \in DOMAIN peers \cup {addr} |-> IF a = addr THEN entry ELSE peers[a]]

register_peer(peers, addr, services, t) ==
    LET inserted == IF addr \in DOMAIN peers THEN peers[addr]
                    ELSE [address |-> addr, last_seen |-> Some(t), last_connected |-> None,
                          status |-> "NeverTried", services |-> services]
        seen == [inserted EXCEPT !.last_seen = Some(t)]
        entry == IF services # None THEN [seen EXCEPT !.services = services] ELSE seen
    IN  [a \in DOMAIN peers \cup {addr} |-> IF a = addr THEN entry ELSE peers[a]]

\* an update that forgets a peer reported Unreachable
update_status_EvictsUnreachable(peers, addr, status, t) ==
    IF addr \in DOMAIN peers /\ status = "Unreachable"
    THEN [a \in DOMAIN peers \ {addr} |-> peers[a]]
    ELSE IF addr \in DOMAIN peers
         THEN [peers EXCEPT ![addr] =
                 IF status = "ConnectedRecently"
                 THEN [@ EXCEPT !.status = status, !.last_connected = Some(t)]
                 ELSE [@ EXCEPT !.status = status]]
         ELSE peers

\* an update that creates the record of an address it does not know
update_status_Upserts(peers, addr, status, t) ==
    LET known == IF addr \in DOMAIN peers THEN peers[addr]
                 ELSE [address |-> addr, last_seen |-> None, last_connected |-> None,
                       status |-> "NeverTried", services |-> None]
        entry == IF status = "ConnectedRecently"
                 THEN [known EXCEPT !.status = status, !.last_connected = Some(t)]
                 ELSE [known EXCEPT !.status = status]
    IN  [a \in DOMAIN peers \cup {addr} |-> IF a = addr THEN entry ELSE peers[a]]

\* an update that stamps last_connected whatever the status
update_status_AlwaysStamps(peers, addr, status, t) ==
    IF addr \in DOMAIN peers
    THEN [peers EXCEPT ![addr] = [@ EXCEPT !.status = status, !.last_connected = Some(t)]]
    ELSE peers

update_status(peers, addr, status, t) ==
    IF addr \in DOMAIN peers
    THEN [peers EXCEPT ![addr] =
            IF status = "ConnectedRecently"
            THEN [@ EXCEPT !.status = status, !.last_connected = Some(t)]
            ELSE [@ EXCEPT !.status = status]]
    ELSE peers

\* serde's text of a SocketAddr, the key of the JSON map
AddrToString(addr) ==
    IF addr.v = "V4" THEN <<addr.ip, ":", addr.port>> ELSE <<"[", addr.ip, "]", ":", addr.port>>
StringToAddr(str) ==
    IF Len(str) = 3 THEN [v |-> "V4", ip |-> str[1], port |-> str[3]]
    ELSE [v |-> "V6", ip |-> str[2], port |-> str[5]]

\* serde_json::to_string_pretty(self): the members of "peers", in no order
ToJson(peers) == {[key |-> AddrToString(a), value |-> peers[a]] : a \in DOMAIN peers}
\* serde_json::from_str
FromJson(doc) ==
    [a \in {StringToAddr(m.key) : m \in doc} |->
        (CHOOSE m \in doc : StringToAddr(m.key) = a).value]

\* the database file: missing, empty (truncated), partial (a write that failed
\* midway) or whole
NoFile == [state |-> "missing", doc |-> {}]
\* a save that writes the text of an empty database
WrittenFile_Blank(peers) == [state |-> "whole", doc |-> ToJson(EmptyDb)]
WrittenFile(peers) == [state |-> "whole", doc |-> ToJson(peers)]

\* a loader that takes what it finds in a file written in part
load_from_file_ReadsPartial(f) ==
    IF f.state \in {"whole", "partial"} THEN FromJson(f.doc) ELSE EmptyDb

\* File::open, read_to_string and serde_json::from_str: any failure gives the default
load_from_file(f) == IF f.state = "whole" THEN FromJson(f.doc) ELSE EmptyDb

\* no control loop, no DNS responder
DnsIdle ==
    /\ peer_db = EmptyDb
    /\ dns_db = None
    /\ dns_pc = "off"
    /\ dns_req = <<>>
    /\ dns_replies = <<>>

\* the two invocations of the crawl command the model follows
Crawls == {"first", "second"}
NoCrawl ==
    [pc |-> "idle", candidates |-> <<>>, peers |-> <<>>, probe |-> <<>>, chan |-> <<>>,
     db |-> EmptyDb, actor |-> "off", sent |-> <<>>, applied |-> <<>>]
\* no crawl command given
CrawlIdle ==
    /\ crawls = [i \in Crawls |-> NoCrawl]
    /\ crawl_connected = {}

\* the control loop is at its prompt
CliIdle == cli_pc = "prompt"

\* no codec function called on its own
CodecIdle ==
    /\ codec_in = <<>>
    /\ codec_count = None
    /\ codec_payload = None
    /\ codec_out = <<>>

(***************************************************************************)
(* database_task (p2p/multhread.rs): commands from a channel, applied one  *)
(* by one, the file rewritten after each                                   *)
(***************************************************************************)
\* the channel is created with capacity 32 (interactive.rs:327); the model's is smaller
ChannelCapacity == 2
\* commands submitted in one run of the actor
MaxCommands == 2
\* the clock runs from 0 to MaxTime
MaxTime == 1

\* two holders of a Sender<DbCommand>: the crawler's probes send UpdatePeerStatus
\* (crawl_peer), the other holder sends the enum's RegisterPeer
Senders == {"registrar", "crawler"}
DbAddrs == {[v |-> "V4", ip |-> <<1, 2, 3, 4>>, port |-> 8333],
            [v |-> "V4", ip |-> <<5, 6, 7, 8>>, port |-> 8333]}
DbCommands(s) ==
    IF s = "crawler"
    THEN {[op |-> "UpdatePeerStatus", addr |-> a, status |-> st, services |-> None] :
            a \in DbAddrs, st \in {"ConnectedRecently", "Unreachable", "Banned"}}
    ELSE {[op |-> "RegisterPeer", addr |-> a, status |-> "NeverTried", services |-> sv] :
            a \in DbAddrs, sv \in {None, Some(1), Some(2)}}

\* a channel that hands out the newest command first
mpsc_recv_Newest(q) == [cmd |-> q[Len(q)], rest |-> SubSeq(q, 1, Len(q) - 1)]

\* rx.recv() on a channel that holds a command
mpsc_recv(q) == [cmd |-> Head(q), rest |-> Tail(q)]

\* the match of database_task
ApplyCommand(peers, cmd, t) ==
    CASE cmd.op = "UpdatePeerStatus" -> update_status(peers, cmd.addr, cmd.status, t)
      [] cmd.op = "RegisterPeer" -> register_peer(peers, cmd.addr, cmd.services, t)

InitDb ==
    /\ version_received = FALSE
    /\ verack_received = FALSE
    /\ handshake_complete = FALSE
    /\ seen_inventory = {}
    /\ getaddr_sent = FALSE
    /\ message_count = 0
    /\ session = "ok"
    /\ sent = <<>>
    /\ reads = <<>>
    /\ db = EmptyDb
    /\ file = NoFile
    /\ chan = <<>>
    /\ db_pc = "recv"
    /\ db_cmd = None
    /\ senders = Senders
    /\ now = 0
    /\ submitted = <<>>
    /\ received = <<>>
    /\ DnsIdle
    /\ CodecIdle
    /\ CrawlIdle
    /\ CliIdle

\* db_tx.send(cmd).await returned Ok
Submit(s, cmd) ==
    /\ s \in senders
    /\ db_pc # "done"
    /\ Len(chan) < ChannelCapacity
    /\ Len(submitted) < MaxCommands
    /\ chan' = Append(chan, cmd)
    /\ submitted' = Append(submitted, [by |-> s, cmd |-> cmd])
    /\ UNCHANGED <<db, file, db_pc, db_cmd, senders, now, received, session_vars, dns_vars, codec_vars, crawl_vars, cli_vars>>

\* a Sender handle is dropped
DropSender(s) ==
    /\ s \in senders
    /\ senders' = senders \ {s}
    /\ UNCHANGED <<db, file, chan, db_pc, db_cmd, now, submitted, received, session_vars, dns_vars, codec_vars, crawl_vars, cli_vars>>

\* rx.recv() returned Some(cmd) and the command is applied to db
DbRecv ==
    /\ db_pc = "recv"
    /\ chan # <<>>
    /\ LET r == mpsc_recv(chan) IN
          /\ chan' = r.rest
          /\ db_cmd' = Some(r.cmd)
          /\ db' = ApplyCommand(db, r.cmd, now)
          /\ received' = Append(received, [cmd |-> r.cmd, at |-> now])
    /\ db_pc' = "save"
    /\ UNCHANGED <<file, senders, now, submitted, session_vars, dns_vars, codec_vars, crawl_vars, cli_vars>>

\* save_to_file: OpenOptions...truncate(true).open(path) succeeded
DbSaveOpen ==
    /\ db_pc = "save"
    /\ file' = [state |-> "empty", doc |-> {}]
    /\ db_pc' = "write"
    /\ UNCHANGED <<db, chan, db_cmd, senders, now, submitted, received, session_vars, dns_vars, codec_vars, crawl_vars, cli_vars>>

\* save_to_file: the open failed, nothing is written
DbSaveOpenFails ==
    /\ db_pc = "save"
    /\ db_pc' = "recv"
    /\ db_cmd' = None
    /\ UNCHANGED <<db, file, chan, senders, now, submitted, received, session_vars, dns_vars, codec_vars, crawl_vars, cli_vars>>

\* save_to_file: write_all succeeded
DbSaveWrite ==
    /\ db_pc = "write"
    /\ file' = WrittenFile(db)
    /\ db_pc' = "recv"
    /\ db_cmd' = None
    /\ UNCHANGED <<db, chan, senders, now, submitted, received, session_vars, dns_vars, codec_vars, crawl_vars, cli_vars>>

\* save_to_file: write_all failed, part of the text may be in the file
DbSaveWriteFails ==
    /\ db_pc = "write"
    /\ file' \in {[state |-> "empty", doc |-> {}], [state |-> "partial", doc |-> ToJson(db)]}
    /\ db_pc' = "recv"
    /\ db_cmd' = None
    /\ UNCHANGED <<db, chan, senders, now, submitted, received, session_vars, dns_vars, codec_vars, crawl_vars, cli_vars>>

\* an actor that stops as soon as every Sender is dropped
DbExit_Early ==
    /\ db_pc = "recv"
    /\ senders = {}
    /\ db_pc' = "done"
    /\ UNCHANGED <<db, file, chan, db_cmd, senders, now, submitted, received, session_vars, dns_vars, codec_vars, crawl_vars, cli_vars>>

\* rx.recv() returned None: every Sender is dropped and the channel is empty
DbExit ==
    /\ db_pc = "recv"
    /\ chan = <<>>
    /\ senders = {}
    /\ db_pc' = "done"
    /\ UNCHANGED <<db, file, chan, db_cmd, senders, now, submitted, received, session_vars, dns_vars, codec_vars, crawl_vars, cli_vars>>

Tick ==
    /\ now < MaxTime
    /\ now' = now + 1
    /\ UNCHANGED <<db, file, chan, db_pc, db_cmd, senders, submitted, received, session_vars, dns_vars, codec_vars, crawl_vars, cli_vars>>

NextDb ==
    \/ \E s \in Senders : \E cmd \in DbCommands(s) : Submit(s, cmd)
    \/ \E s \in Senders : DropSender(s)
    \/ DbRecv
    \/ DbSaveOpen
    \/ DbSaveOpenFails
    \/ DbSaveWrite
    \/ DbSaveWriteFails
    \/ DbExit
    \/ Tick

SpecDb == InitDb /\ [][NextDb]_vars

(***************************************************************************)
(* What the peer can put on the wire                                       *)
(***************************************************************************)
\* the catalogue the peer announces from: hashes 1..NTx are transactions, the next
\* NBlock are blocks, the next NCompact compact blocks, the last NOther of kinds
\* the client does not request
NTx == 15
NBlock == 5
NCompact == 2
NOther == 1
\* long announcements a peer makes in one session of SpecInv
MaxInvFrames == 2

CatalogueSize == NTx + NBlock + NCompact + NOther

\* the u32 type code of catalogue entry h; witness picks the witness form
CatalogueCode(h, witness) ==
    IF h <= NTx THEN (IF witness THEN 1073741825 ELSE 1)
    ELSE IF h <= NTx + NBlock THEN (IF witness THEN 1073741826 ELSE 2)
    ELSE IF h <= NTx + NBlock + NCompact THEN 4
    ELSE IF (h - NTx - NBlock - NCompact) % 2 = 1 THEN 3 ELSE 5

InvPayload(hashes, witness) ==
    [t |-> "inv",
     prefix |-> CompactSizeOf(Len(hashes)),
     items |-> [i \in 1..Len(hashes) |->
                   [inv_type_raw |-> CatalogueCode(hashes[i], witness), hash |-> hashes[i]]],
     tail |-> 0]

Ascending(k) == [i \in 1..k |-> i]
Descending(k) == [i \in 1..k |-> k + 1 - i]

\* the first k entries of the catalogue in order (none, one, and from the transaction
\* cap on), and, from the first block on, the first k entries backwards (compact
\* blocks, then blocks, then transactions)
LongInvPayloads ==
    {InvPayload(Ascending(k), FALSE) : k \in {0, 1} \cup (TxRequestLimit..CatalogueSize)}
    \cup {InvPayload(Descending(k), FALSE) : k \in (NTx + 1)..CatalogueSize}
    \cup {InvPayload(Ascending(CatalogueSize), TRUE)}

ShortInvPayloads ==
    {InvPayload(<<1>>, FALSE),
     InvPayload(<<1, NTx + 1>>, TRUE),
     \* a count of 2 followed by one item and 5 stray bytes
     [InvPayload(<<NTx + NBlock + 1>>, FALSE) EXCEPT !.prefix = <<2>>, !.tail = 5]}

V4Mapped(a, b, c, d) == V4Prefix \o <<a, b, c, d>>
Port8333 == <<32, 141>>

AddrPayload(ips) ==
    [t |-> "addr",
     prefix |-> CompactSizeOf(Len(ips)),
     entries |-> [i \in 1..Len(ips) |-> [ip |-> ips[i], port |-> Port8333]],
     tail |-> 0]

AddrPayloads ==
    {AddrPayload(<<V4Mapped(1, 2, 3, 4), V4Mapped(5, 6, 7, 8)>>),
     AddrPayload(<<[i \in 1..16 |-> i]>>)}

PingPayloads == {RawPayload([i \in 1..n |-> i]) : n \in (PingEchoMin - 1)..(PingEchoMin + 1)}

Wire(command, payload) ==
    [hdr |-> "ok", header |-> MessageHeader_new(command, payload),
     body |-> payload, avail |-> PayloadLen(payload)]

NoData == [Wire("", EmptyPayload) EXCEPT !.hdr = "would_block"]

VersionWires == {Wire("version", RawPayload(<<127, 17, 1, 0>>))}
VerackWires == {Wire("verack", EmptyPayload)}
PingWires == {Wire("ping", p) : p \in PingPayloads}
InvWires == {Wire("inv", p) : p \in ShortInvPayloads}
LongInvWires == {Wire("inv", p) : p \in LongInvPayloads}
AddrWires == {Wire("addr", p) : p \in AddrPayloads}
OtherWires == {Wire("pong", RawPayload([i \in 1..8 |-> i])),
               Wire("feefilter", RawPayload([i \in 1..8 |-> 0])),
               Wire("mempool", EmptyPayload)}

AlteredMagic(w) == [w EXCEPT !.header.magic = <<11, 17, 9, 7>>]
AlteredChecksum(w) == [w EXCEPT !.header.checksum = <<"altered">>]
Truncated(w) == [w EXCEPT !.avail = w.header.payload_size - 1]

WellFormedWires == VersionWires \cup VerackWires \cup PingWires \cup InvWires
                       \cup AddrWires \cup OtherWires

DamagedWires ==
    LET ping == Wire("ping", RawPayload([i \in 1..8 |-> i]))
        verack == Wire("verack", EmptyPayload)
    IN  {AlteredMagic(verack), AlteredChecksum(ping), AlteredChecksum(verack),
         Truncated(ping), [NoData EXCEPT !.hdr = "eof"]}

Wires == WellFormedWires \cup DamagedWires \cup {NoData}

(***************************************************************************)
(* The session: state after connect() and start_handshake(), then one      *)
(* action per way an iteration of message_loop can go                      *)
(***************************************************************************)
\* no database actor runs beside the session
DbIdle ==
    /\ db = EmptyDb
    /\ file = NoFile
    /\ chan = <<>>
    /\ db_pc = "done"
    /\ db_cmd = None
    /\ senders = {}
    /\ now = 0
    /\ submitted = <<>>
    /\ received = <<>>

Init ==
    /\ version_received = FALSE
    /\ verack_received = FALSE
    /\ handshake_complete = FALSE
    /\ seen_inventory = {}
    /\ getaddr_sent = FALSE
    /\ message_count = 0
    /\ session = "running"
    /\ sent = <<Frame("version", RawPayload(<<127, 17, 1, 0>>))>>
    /\ reads = <<>>
    /\ DbIdle
    /\ DnsIdle
    /\ CodecIdle
    /\ CrawlIdle
    /\ CliIdle

\* the loop is entered and the cap is not reached (p2p_client.rs:150-154)
Iterating ==
    /\ session = "running"
    /\ message_count + 1 <= max_messages
    /\ message_count' = message_count + 1

ClientUnchanged ==
    UNCHANGED <<version_received, verack_received, handshake_complete,
                seen_inventory, getaddr_sent, sent>>

MaxMessagesReached ==
    /\ session = "running"
    /\ message_count + 1 > max_messages
    /\ message_count' = message_count + 1
    /\ session' = "ok"
    /\ ClientUnchanged
    /\ UNCHANGED <<reads, db_vars, dns_vars, codec_vars, crawl_vars, cli_vars>>

\* is_connection_alive returned Ok(false)
ConnectionClosed ==
    /\ Iterating
    /\ session' = "ok"
    /\ ClientUnchanged
    /\ UNCHANGED <<reads, db_vars, dns_vars, codec_vars, crawl_vars, cli_vars>>

\* is_connection_alive returned Err
IsAliveFails ==
    /\ Iterating
    /\ session' = "err"
    /\ ClientUnchanged
    /\ UNCHANGED <<reads, db_vars, dns_vars, codec_vars, crawl_vars, cli_vars>>

ReadResult(w) == [res |-> read_message(w).res, wire |-> w]

\* read_message returned Ok(None)
ReadNothing(w) ==
    /\ Iterating
    /\ read_message(w).res = "none"
    /\ reads' = Append(reads, ReadResult(w))
    /\ ClientUnchanged
    /\ UNCHANGED <<session, db_vars, dns_vars, codec_vars, crawl_vars, cli_vars>>

\* a loop that logs the error of read_message and goes on to the next iteration
ReadFails_GoesOn(w) ==
    /\ Iterating
    /\ read_message(w).res = "err"
    /\ reads' = Append(reads, ReadResult(w))
    /\ ClientUnchanged
    /\ UNCHANGED <<session, db_vars, dns_vars, codec_vars, crawl_vars, cli_vars>>

\* read_message returned Err: the loop breaks and message_loop returns Ok
ReadFails(w) ==
    /\ Iterating
    /\ read_message(w).res = "err"
    /\ reads' = Append(reads, ReadResult(w))
    /\ session' = "ok"
    /\ ClientUnchanged
    /\ UNCHANGED <<db_vars, dns_vars, codec_vars, crawl_vars, cli_vars>>

\* read_message returned a message: handle_message, the latch, the getaddr
Handle(w, budget) ==
    /\ Iterating
    /\ \E m \in {read_message(w)} :
          /\ m.res = "msg"
          /\ \E c \in {OnMessage([Client EXCEPT !.budget = budget], m.command, m.payload)} :
                /\ reads' = Append(reads, [res |-> m.res, wire |-> w])
                /\ version_received' = c.version_received
                /\ verack_received' = c.verack_received
                /\ handshake_complete' = c.handshake_complete
                /\ seen_inventory' = c.seen_inventory
                /\ getaddr_sent' = c.getaddr_sent
                /\ sent' = c.sent
                /\ session' = IF c.failed THEN "err" ELSE "running"
    /\ UNCHANGED <<db_vars, dns_vars, codec_vars, crawl_vars, cli_vars>>

HandleVersion(w, budget) == w.header.command = "version" /\ Handle(w, budget)
HandleVerack(w, budget) == w.header.command = "verack" /\ Handle(w, budget)
HandlePing(w, budget) == w.header.command = "ping" /\ Handle(w, budget)
HandleInv(w, budget) == w.header.command = "inv" /\ Handle(w, budget)
HandleAddr(w, budget) == w.header.command = "addr" /\ Handle(w, budget)
HandleOther(w, budget) ==
    /\ w.header.command \notin {"version", "verack", "ping", "inv", "addr"}
    /\ Handle(w, budget)

Next ==
    \/ MaxMessagesReached
    \/ ConnectionClosed
    \/ IsAliveFails
    \/ \E w \in Wires : ReadNothing(w)
    \/ \E w \in Wires : ReadFails(w)
    \/ \E w \in Wires, budget \in 0..WriteBudget : HandleVersion(w, budget)
    \/ \E w \in Wires, budget \in 0..WriteBudget : HandleVerack(w, budget)
    \/ \E w \in Wires, budget \in 0..WriteBudget : HandlePing(w, budget)
    \/ \E w \in Wires, budget \in 0..WriteBudget : HandleInv(w, budget)
    \/ \E w \in Wires, budget \in 0..WriteBudget : HandleAddr(w, budget)
    \/ \E w \in Wires, budget \in 0..WriteBudget : HandleOther(w, budget)

Spec == Init /\ [][Next]_vars

\* a session in which the peer announces long inventories and nothing else; an inv
\* iteration writes one frame at most, and that write fails (0) or succeeds (1)
NextInv ==
    \/ ConnectionClosed
    \/ \E w \in LongInvWires, budget \in 0..1 :
          Len(reads) < MaxInvFrames /\ HandleInv(w, budget)

SpecInv == Init /\ [][NextInv]_vars

(***************************************************************************)
(* Properties of the session                                               *)
(***************************************************************************)
Commands(frames) == [i \in 1..Len(frames) |-> frames[i].header.command]
IsPrefix(a, b) == Len(a) <= Len(b) /\ a = SubSeq(b, 1, Len(a))
IsMsg(r) == r.res = "msg"
\* the commands of the frames handle_message was given, in order
HandledCommands ==
    LET h == SelectSeq(reads, IsMsg) IN [i \in 1..Len(h) |-> h[i].wire.header.command]
Count(frames, command) == Cardinality({i \in 1..Len(frames) : frames[i].header.command = command})

\* the step is an iteration whose read_message returned a frame of this command
HandledNow(command) ==
    /\ Len(reads') = Len(reads) + 1
    /\ reads'[Len(reads')].res = "msg"
    /\ reads'[Len(reads')].wire.header.command = command
\* the step is an iteration whose read_message returned Err
RejectedNow ==
    /\ Len(reads') = Len(reads) + 1
    /\ reads'[Len(reads')].res = "err"
PayloadNow == read_message(reads'[Len(reads')].wire).payload
SentNow == SubSeq(sent', Len(sent) + 1, Len(sent'))

HappyFrames == <<Frame("version", RawPayload(<<127, 17, 1, 0>>)),
                 Frame("verack", EmptyPayload), Frame("getaddr", EmptyPayload)>>

\* C1: while the peer has sent version and then verack and nothing else, the frames
\* written are version, verack, getaddr in this order (all three once the verack is
\* handled and no write failed); handshake_complete is false before the inbound
\* verack is handled and true right after it.
C1_HappyHandshake ==
    /\ HandledCommands \in {<<>>, <<"version">>} =>
          /\ ~handshake_complete
          /\ IsPrefix(sent, HappyFrames)
          /\ Count(sent, "getaddr") = 0
          /\ (HandledCommands = <<"version">> /\ session # "err" => Len(sent) = 2)
    /\ HandledCommands = <<"version", "verack">> =>
          /\ handshake_complete
          /\ IsPrefix(sent, HappyFrames)
          /\ (session # "err" => sent = HappyFrames)

C1_Witness ==
    /\ HandledCommands = <<"version", "verack">>
    /\ session = "running"
    /\ Commands(sent) = <<"version", "verack", "getaddr">>
    /\ handshake_complete

\* C2: a session never writes more than one getaddr, whatever arrives; and a version
\* or verack handled when handshake_complete is already true leaves it true and
\* writes no getaddr.
C2_GetaddrOnce ==
    /\ [](Count(sent, "getaddr") <= 1)
    /\ [][handshake_complete /\ (HandledNow("version") \/ HandledNow("verack"))
            => handshake_complete' /\ Count(SentNow, "getaddr") = 0]_vars

C2_Witness ==
    /\ HandledCommands \in {<<"version", "verack", "version">>, <<"verack", "version", "verack">>}
    /\ handshake_complete
    /\ session = "running"
    /\ Count(sent, "getaddr") = 1

\* C3: handshake_complete implies both flags; it is true at the end of every
\* iteration that completed with both flags true (an iteration cut short by a
\* write error ends the session before the latch); once true it stays true.
C3_Latch ==
    /\ [](handshake_complete => version_received /\ verack_received)
    /\ [](session # "err" /\ version_received /\ verack_received => handshake_complete)
    /\ [][handshake_complete => handshake_complete']_vars

C3_Witness ==
    /\ HandledCommands = <<"verack", "version">>
    /\ handshake_complete
    /\ session = "running"

\* the frames handle_message was given so far
FramesProcessed == Len(SelectSeq(reads, IsMsg))

\* C32: message_loop has left the loop through the cap (its counter is past
\* max_messages) only when max_messages inbound frames have been processed;
\* iterations whose read_message returned Ok(None) are not counted.
C32_CapCountsFrames ==
    message_count > max_messages => FramesProcessed >= max_messages

\* C33: an iteration whose read_message returned Err writes nothing and makes
\* message_loop return Ok; the error is the last thing read in the session, and once
\* message_loop has returned nothing more is read, handled or written.
C33_FailureEndsSession ==
    /\ [][RejectedNow => session' = "ok" /\ sent' = sent]_vars
    /\ [](\A i \in 1..Len(reads) :
             reads[i].res = "err" => i = Len(reads) /\ session = "ok")
    /\ [][session # "running"
            => UNCHANGED <<session, reads, sent, version_received, verack_received,
                           handshake_complete, seen_inventory>>]_vars

\* the version was handled and answered, then a frame with a foreign magic came
C33_Witness ==
    /\ Len(reads) = 2
    /\ reads[1].res = "msg"
    /\ reads[2].res = "err"
    /\ read_message(reads[2].wire).why = "Invalid magic bytes"
    /\ Commands(sent) = <<"version", "verack">>
    /\ session = "ok"

(***************************************************************************)
(* Properties of the inventory policy                                      *)
(***************************************************************************)
Hashes(items) == {items[i].hash : i \in 1..Len(items)}
Distinct(items) == Cardinality({items[i] : i \in 1..Len(items)}) = Len(items)
DistinctHashes(items) == Cardinality(Hashes(items)) = Len(items)
OfKind(items, kinds) == {i \in 1..Len(items) : items[i].inv_type \in kinds}
\* the first n positions of `items` that hold one of `kinds`
FirstOfKind(items, kinds, n) ==
    {i \in OfKind(items, kinds) : Cardinality({j \in OfKind(items, kinds) : j < i}) < n}
\* the items the first of `frames` asks for when it is a getdata
Requested(frames) ==
    IF frames = <<>> \/ frames[1].header.command # "getdata" THEN <<>>
    ELSE parse_inv_message(frames[1].payload)
AsSet(seq) == {seq[i] : i \in 1..Len(seq)}

\* C4: an inv payload of distinct, unseen items is answered by one getdata holding
\* the first 10 Tx/WitnessTx items, the first 3 Block/WitnessBlock items and every
\* CompactBlock item of the payload, in whatever order the kinds come.
C4_PerKindCaps ==
    [][HandledNow("inv") /\ session' = "running"
       => \A payload \in {PayloadNow}, frames \in {SentNow} :
          \A items \in {parse_inv_message(payload)}, requested \in {Requested(frames)} :
             DistinctHashes(items) /\ Hashes(items) \cap seen_inventory = {}
             => LET wanted == FirstOfKind(items, {"Transaction", "WitnessTransaction"}, 10)
                                \cup FirstOfKind(items, {"Block", "WitnessBlock"}, 3)
                                \cup OfKind(items, {"CompactBlock"})
                IN  /\ AsSet(requested) = {items[i] : i \in wanted}
                    /\ Len(requested) = Cardinality(wanted)
                    /\ Count(frames, "getdata") = (IF wanted = {} THEN 0 ELSE 1)]_vars

\* C5: the getdata written for an inv payload of N distinct items holds at most
\* min(10 + 3 + number of CompactBlock items, N) items, each an item of the payload,
\* each with its hash in the seen-set afterwards.
C5_PolicyBound ==
    [][HandledNow("inv")
       => \A payload \in {PayloadNow}, frames \in {SentNow} :
          \A items \in {parse_inv_message(payload)}, requested \in {Requested(frames)} :
             Distinct(items)
             => /\ Len(requested) <= Min(10 + 3 + Cardinality(OfKind(items, {"CompactBlock"})),
                                         Len(items))
                /\ AsSet(requested) \subseteq AsSet(items)
                /\ Hashes(requested) \subseteq seen_inventory'
                /\ Count(frames, "getdata") <= 1]_vars

C5_Witness ==
    /\ session = "running"
    /\ Len(reads) = 1
    /\ Len(parse_inv_message(reads[1].wire.body)) > 10 + 3 + 2
    /\ Len(sent) = 2
    /\ Len(parse_inv_message(sent[2].payload)) > 10

\* every item asked for by the getdata frames written so far, in order
RECURSIVE RequestedBy(_)
RequestedBy(frames) ==
    IF frames = <<>> THEN <<>>
    ELSE (IF Head(frames).header.command = "getdata"
          THEN parse_inv_message(Head(frames).payload) ELSE <<>>) \o RequestedBy(Tail(frames))
\* the hashes carried by the inv payloads handled so far
RECURSIVE CarriedBy(_)
CarriedBy(rs) ==
    IF rs = <<>> THEN {}
    ELSE (IF Head(rs).res = "msg" /\ Head(rs).wire.header.command = "inv"
          THEN Hashes(parse_inv_message(read_message(Head(rs).wire).payload)) ELSE {})
         \cup CarriedBy(Tail(rs))

\* C6: an inv payload whose hashes were all carried by earlier inv payloads of the
\* session is answered by no getdata, and no hash is asked for twice in a session.
C6_NoRepeatedRequest ==
    /\ [](\A requested \in {RequestedBy(sent)} : DistinctHashes(requested))
    /\ [][HandledNow("inv")
            => \A payload \in {PayloadNow}, earlier \in {reads} :
               \A items \in {parse_inv_message(payload)} :
                  Hashes(items) \subseteq CarriedBy(earlier) => sent' = sent]_vars

C6_Witness ==
    /\ Len(reads) = 2
    /\ reads[1].wire = reads[2].wire
    /\ Len(parse_inv_message(reads[1].wire.body)) >= 2
    /\ session = "running"
    /\ Count(sent, "getdata") = 1

\* C36: after an inv frame is handled every hash it carried is in the seen-set,
\* requested or not; a getdata asks only for hashes that were not in the seen-set
\* before the frame; and no step takes a hash out of the seen-set.
C36_SkippedItemsSeen ==
    /\ [][HandledNow("inv")
            => \A payload \in {PayloadNow}, frames \in {SentNow} :
                  /\ Hashes(parse_inv_message(payload)) \subseteq seen_inventory'
                  /\ Hashes(Requested(frames)) \cap seen_inventory = {}]_vars
    /\ [][seen_inventory \subseteq seen_inventory']_vars

\* the whole catalogue was announced twice: the first frame was answered by a getdata
\* that left out capped items and the item of a kind not requested, the second by
\* nothing
C36_Witness ==
    /\ Len(reads) = 2
    /\ reads[1].wire = reads[2].wire
    /\ Len(parse_inv_message(reads[1].wire.body)) = CatalogueSize
    /\ Cardinality(seen_inventory) = CatalogueSize
    /\ Count(sent, "getdata") = 1
    /\ Len(RequestedBy(sent)) < CatalogueSize - NOther
    /\ session = "running"

(***************************************************************************)
(* Properties of read_message and of the ping and addr arms                *)
(***************************************************************************)
Intact(w) ==
    /\ w.header.magic = MAGIC
    /\ w.header.checksum = Checksum4(w.body)
    /\ w.avail >= w.header.payload_size

\* C7: read_message returns a message only for a frame with the mainnet magic, the
\* checksum of its payload (whatever the payload length, zero too) and the whole
\* payload; and an iteration whose read_message returned Err changes no flag, no
\* seen-set entry and writes nothing.
C7_RejectsDamaged ==
    /\ [](\A i \in 1..Len(reads) : reads[i].res = "msg" => Intact(reads[i].wire))
    /\ [][RejectedNow => UNCHANGED <<version_received, verack_received, handshake_complete,
                                     seen_inventory, sent>>]_vars

\* C8: a ping of at least 8 bytes is answered by one pong with the same payload
\* (when the write fails message_loop returns the error and nothing is written), a
\* shorter ping by nothing; either way flags and seen-set are unchanged.
C8_PingEcho ==
    [][HandledNow("ping")
       => /\ UNCHANGED <<version_received, verack_received, handshake_complete,
                         seen_inventory>>
          /\ IF PayloadLen(PayloadNow) >= 8
             THEN \/ SentNow = <<Frame("pong", PayloadNow)>> /\ session' = "running"
                  \/ SentNow = <<>> /\ session' = "err"
             ELSE SentNow = <<>> /\ session' = "running"]_vars

C8_Witness ==
    /\ reads # <<>>
    /\ reads[Len(reads)].res = "msg"
    /\ reads[Len(reads)].wire.header.command = "ping"
    /\ PayloadLen(reads[Len(reads)].wire.body) = 9
    /\ sent[Len(sent)] = Frame("pong", reads[Len(reads)].wire.body)
    /\ session = "running"

\* C9: after an addr frame is handled every address decoded from it is in the peer
\* database with status NeverTried and the database file parses back to the
\* database in memory.
C9_AddrRegistered ==
    reads # <<>> /\ reads[Len(reads)].res = "msg" /\ session = "running"
        /\ reads[Len(reads)].wire.header.command = "addr"
    => \A addresses \in {parse_addr_message(reads[Len(reads)].wire.body)} :
          /\ \A i \in 1..Len(addresses) :
                addresses[i] \in DOMAIN db /\ db[addresses[i]].status = "NeverTried"
          /\ file.state = "whole"
          /\ load_from_file(file) = db

(***************************************************************************)
(* Properties of the database actor                                        *)
(***************************************************************************)
Cmds(log) == [i \in 1..Len(log) |-> log[i].cmd]

\* the commands of `log` applied one after the other, each at its logged time
RECURSIVE AppliedInOrder(_, _)
AppliedInOrder(peers, log) ==
    IF log = <<>> THEN peers
    ELSE LET c == Head(log).cmd
             next == IF c.op = "RegisterPeer"
                     THEN register_peer(peers, c.addr, c.services, Head(log).at)
                     ELSE update_status(peers, c.addr, c.status, Head(log).at)
         IN  AppliedInOrder(next, Tail(log))

\* C10: whoever submits, the actor receives the commands in channel order, each
\* exactly once, and its database is the initial one with the received commands
\* applied one after the other; the database changes only when a command is
\* received.
C10_SerialApply ==
    /\ [](Cmds(submitted) = Cmds(received) \o chan)
    /\ [](db = AppliedInOrder(EmptyDb, received))
    /\ [][db' # db => Len(received') = Len(received) + 1]_vars

C10_Witness ==
    /\ Len(received) >= 2
    /\ {submitted[i].by : i \in 1..Len(submitted)} = Senders
    /\ db_pc = "recv"
    /\ Cardinality(DOMAIN db) >= 1
    /\ \E a \in DOMAIN db : db[a].status # "NeverTried"

(***************************************************************************)
(* DNS responder (p2p/dns_server.rs). Datagrams are sequences of bytes;    *)
(* the code's 0-based req[idx] is req[idx + 1] here.                       *)
(***************************************************************************)
MAX_PEERS == 10

\* "seed.example.com." as start_dns_server passes it (interactive.rs:375), in ASCII
Dot == 46
Ascii_seed == <<115, 101, 101, 100>>
Ascii_example == <<101, 120, 97, 109, 112, 108, 101>>
Ascii_com == <<99, 111, 109>>
Ascii_other == <<111, 116, 104, 101, 114>>
ConfiguredDomain ==
    Ascii_seed \o <<Dot>> \o Ascii_example \o <<Dot>> \o Ascii_com \o <<Dot>>

\* u16::to_be_bytes / u16::from_be_bytes
U16Be(v) == <<(v \div 256) % 256, v % 256>>
FromU16Be(hi, lo) == hi * 256 + lo

\* String::from_utf8_lossy, for labels of ASCII bytes and bytes that start no
\* UTF-8 sequence: the former are kept, the latter become U+FFFD
Utf8Lossy(bytes) == [i \in 1..Len(bytes) |-> IF bytes[i] < 128 THEN bytes[i] ELSE 65533]

\* labels.join(".")
RECURSIVE JoinDot(_)
JoinDot(labels) ==
    IF labels = <<>> THEN <<>>
    ELSE IF Len(labels) = 1 THEN labels[1]
    ELSE labels[1] \o <<Dot>> \o JoinDot(Tail(labels))

\* the while loop of parse_dns_query
RECURSIVE ParseLabels(_, _, _)
ParseLabels(req, idx, labels) ==
    IF idx < Len(req) /\ req[idx + 1] # 0
    THEN LET len == req[idx + 1] IN
         IF idx + 1 + len > Len(req) THEN [ok |-> FALSE, idx |-> idx + 1, labels |-> labels]
         ELSE ParseLabels(req, idx + 1 + len,
                          Append(labels, Utf8Lossy(SubSeq(req, idx + 2, idx + 1 + len))))
    ELSE [ok |-> TRUE, idx |-> idx, labels |-> labels]

\* a parser that does not look at QDCOUNT
parse_dns_query_AnyCount(req) ==
    IF Len(req) < 12 THEN None
    ELSE LET txid == FromU16Be(req[1], req[2])
             flags == FromU16Be(req[3], req[4])
         IN  IF flags >= 32768 THEN None
             ELSE LET w == ParseLabels(req, 12, <<>>) IN
                  IF ~w.ok THEN None
                  ELSE IF w.idx >= Len(req) THEN None
                  ELSE LET idx == w.idx + 1 IN
                       IF idx + 4 > Len(req) THEN None
                       ELSE LET qtype == FromU16Be(req[idx + 1], req[idx + 2])
                                qclass == FromU16Be(req[idx + 3], req[idx + 4])
                            IN  Some([txid |-> txid,
                                      is_a_query |-> (qtype = 1 /\ qclass = 1),
                                      qname |-> JoinDot(w.labels)])

\* None, or Some of (txid, is_a_query, qname)
parse_dns_query(req) ==
    IF Len(req) < 12 THEN None
    ELSE LET txid == FromU16Be(req[1], req[2])
             flags == FromU16Be(req[3], req[4])
             qdcount == FromU16Be(req[5], req[6])
         IN  IF flags >= 32768 \/ qdcount = 0 THEN None          \* flags & 0x8000 != 0
             ELSE LET w == ParseLabels(req, 12, <<>>) IN
                  IF ~w.ok THEN None
                  ELSE IF w.idx >= Len(req) THEN None
                  ELSE LET idx == w.idx + 1 IN
                       IF idx + 4 > Len(req) THEN None
                       ELSE LET qtype == FromU16Be(req[idx + 1], req[idx + 2])
                                qclass == FromU16Be(req[idx + 3], req[idx + 4])
                            IN  Some([txid |-> txid,
                                      is_a_query |-> (qtype = 1 /\ qclass = 1),
                                      qname |-> JoinDot(w.labels)])

\* the walk over the question both builders make: the index after it
RECURSIVE QuestionEnd(_, _)
QuestionEnd(req, idx) ==
    IF idx < Len(req)
    THEN IF req[idx + 1] = 0 THEN idx + 5 ELSE QuestionEnd(req, idx + 1 + req[idx + 1])
    ELSE idx

\* &req[12..idx]
QuestionOf(req) == SubSeq(req, 13, QuestionEnd(req, 12))

\* one answer record of build_dns_response
AnswerRecord(peer) ==
    <<192, 12, 0, 1, 0, 1, 0, 0, 0, 60, 0, 4>>
        \o (IF peer.v = "V4" THEN peer.ip ELSE <<0, 0, 0, 0>>)

RECURSIVE AnswerRecords(_)
AnswerRecords(peers) ==
    IF peers = <<>> THEN <<>> ELSE AnswerRecord(Head(peers)) \o AnswerRecords(Tail(peers))

build_dns_response(req, txid, peers) ==
    U16Be(txid) \o <<129, 128>> \o <<0, 1>> \o U16Be(Len(peers) % 65536) \o <<0, 0>> \o <<0, 0>>
        \o QuestionOf(req) \o AnswerRecords(peers)

\* build_dns_notimpl answering NXDOMAIN (RCODE 3)
build_dns_notimpl_NxDomain(req, txid) ==
    U16Be(txid) \o <<129, 131>> \o <<0, 1>> \o <<0, 0>> \o <<0, 0>> \o <<0, 0>> \o QuestionOf(req)

build_dns_notimpl(req, txid) ==
    U16Be(txid) \o <<129, 132>> \o <<0, 1>> \o <<0, 0>> \o <<0, 0>> \o <<0, 0>> \o QuestionOf(req)

\* an order of the addresses of a set: by last byte of the address, then port
AddrRank(a) == a.ip[Len(a.ip)] * 65536 + a.port
RECURSIVE Ascend(_)
Ascend(S) ==
    IF S = {} THEN <<>>
    ELSE LET a == CHOOSE x \in S : \A y \in S : AddrRank(x) <= AddrRank(y)
         IN  <<a>> \o Ascend(S \ {a})
Reverse(seq) == [i \in 1..Len(seq) |-> seq[Len(seq) + 1 - i]]

\* db.peers.values().filter(status == ConnectedRecently).map(address)
Reachable(peers) == {peers[a].address : a \in {x \in DOMAIN peers : peers[x].status = "ConnectedRecently"}}

\* choose_multiple(&mut rng, amount): any `amount` of the candidates, all of them
\* when there are fewer; the order they come in is taken ascending or descending
\* the sets S is left as when m of its elements are taken out
RECURSIVE Without(_, _)
Without(S, m) == IF m = 0 THEN {S} ELSE UNION {Without(S \ {x}, m - 1) : x \in S}

\* choose_multiple that hands out every candidate
choose_multiple_Unlimited(candidates, amount) == {Ascend(candidates), Reverse(Ascend(candidates))}

choose_multiple(candidates, amount) ==
    LET n == Min(Cardinality(candidates), amount) IN
    UNION {{Ascend(S), Reverse(Ascend(S))} : S \in Without(candidates, Cardinality(candidates) - n)}

\* what one send_to call is remembered as
SendTo(datagram, ok) == [datagram |-> datagram, ok |-> ok]

DnsServing ==
    /\ dns_pc = "serving"
    /\ dns_db # None

\* recv_from returned Err: run_dns_server returns it
DnsRecvFails ==
    /\ DnsServing
    /\ dns_pc' = "failed"
    /\ UNCHANGED <<peer_db, dns_db, dns_req, dns_replies, session_vars, db_vars, codec_vars, crawl_vars, cli_vars>>

\* a datagram parse_dns_query returns None for: logged, nothing sent
DnsMalformed(req) ==
    /\ DnsServing
    /\ parse_dns_query(req) = None
    /\ dns_req' = req
    /\ dns_replies' = <<>>
    /\ UNCHANGED <<peer_db, dns_db, dns_pc, session_vars, db_vars, codec_vars, crawl_vars, cli_vars>>

\* an A/IN query whose qname equals the domain: answered from a read of dns_db
DnsAnswer(req, ok) ==
    /\ DnsServing
    /\ \E q \in {parse_dns_query(req)} :
          /\ q # None
          /\ q[1].is_a_query /\ q[1].qname = ConfiguredDomain
          /\ \E peers \in choose_multiple(Reachable(dns_db[1]), MAX_PEERS) :
                dns_replies' = <<SendTo(build_dns_response(req, q[1].txid, peers), ok)>>
    /\ dns_req' = req
    /\ UNCHANGED <<peer_db, dns_db, dns_pc, session_vars, db_vars, codec_vars, crawl_vars, cli_vars>>

\* any other query parse_dns_query accepts
DnsNotImpl(req, ok) ==
    /\ DnsServing
    /\ \E q \in {parse_dns_query(req)} :
          /\ q # None
          /\ ~(q[1].is_a_query /\ q[1].qname = ConfiguredDomain)
          /\ dns_replies' = <<SendTo(build_dns_notimpl(req, q[1].txid), ok)>>
    /\ dns_req' = req
    /\ UNCHANGED <<peer_db, dns_db, dns_pc, session_vars, db_vars, codec_vars, crawl_vars, cli_vars>>

(***************************************************************************)
(* What a resolver can send, and the databases the responder is started on *)
(***************************************************************************)
\* peers of the databases the responder is started on
NDnsPeers == 11

DnsLabel(bytes) == <<Len(bytes)>> \o bytes
RECURSIVE DnsName(_)
DnsName(labels) ==
    IF labels = <<>> THEN <<0>> ELSE DnsLabel(Head(labels)) \o DnsName(Tail(labels))

DnsQuery(txid, flags, qdcount, labels, qtype, qclass) ==
    U16Be(txid) \o U16Be(flags) \o U16Be(qdcount) \o <<0, 0, 0, 0, 0, 0>>
        \o DnsName(labels) \o U16Be(qtype) \o U16Be(qclass)

\* seed.example.com as a resolver writes it, and with the dot inside the last label
PlainLabels == <<Ascii_seed, Ascii_example, Ascii_com>>
DottedLabels == <<Ascii_seed, Ascii_example, Ascii_com \o <<Dot>>>>
OtherLabels == <<Ascii_other, Ascii_example, Ascii_com>>

\* queries parse_dns_query accepts
WellFormedQueries ==
    {DnsQuery(4660, 256, 1, PlainLabels, 1, 1),
     DnsQuery(4660, 256, 1, DottedLabels, 1, 1),
     \* a second question count and an OPT record after the question
     DnsQuery(65535, 0, 2, DottedLabels, 1, 1) \o <<0, 0, 41, 16, 0, 0, 0, 0, 0, 0, 0>>,
     DnsQuery(4660, 256, 1, OtherLabels, 1, 1),
     DnsQuery(4660, 256, 1, DottedLabels, 28, 1),
     DnsQuery(4660, 256, 1, DottedLabels, 1, 3),
     DnsQuery(7, 256, 1, PlainLabels, 16, 1),
     DnsQuery(4660, 256, 1, <<>>, 1, 1)}

\* datagrams it returns None for
MalformedQueries ==
    LET q == DnsQuery(4660, 256, 1, DottedLabels, 1, 1) IN
    {SubSeq(q, 1, 11),                                  \* shorter than a header
     DnsQuery(4660, 33024, 1, DottedLabels, 1, 1),     \* QR set
     DnsQuery(4660, 256, 0, DottedLabels, 1, 1),       \* QDCOUNT = 0
     SubSeq(q, 1, Len(q) - 2),                          \* question cut in QCLASS
     SubSeq(q, 1, 20),                                  \* cut inside a label
     SubSeq(q, 1, 17)}                                  \* cut before the terminator

DnsDatagrams == WellFormedQueries \cup MalformedQueries

DnsPeer(i) == [v |-> "V4", ip |-> <<10, 0, 0, i>>, port |-> 8333]
PeerRecord(addr, status) ==
    [address |-> addr, last_seen |-> Some(0),
     last_connected |-> (IF status = "ConnectedRecently" THEN Some(0) ELSE None),
     status |-> status, services |-> None]
\* statuses other than ConnectedRecently, in turn
IdleStatus(i) == CASE i % 3 = 0 -> "NeverTried" [] i % 3 = 1 -> "Unreachable" [] OTHER -> "Banned"

\* NDnsPeers peers of which the first k were connected to recently
DbWithReachable(k) ==
    [a \in {DnsPeer(i) : i \in 1..NDnsPeers} |->
        PeerRecord(a, IF a.ip[4] <= k THEN "ConnectedRecently" ELSE IdleStatus(a.ip[4]))]
\* a node reachable on two ports, and one reachable over IPv6
DbTwoPorts ==
    LET a == DnsPeer(1)  b == [DnsPeer(1) EXCEPT !.port = 18333]  c == DnsPeer(2) IN
    [x \in {a, b, c} |-> PeerRecord(x, IF x = c THEN "Banned" ELSE "ConnectedRecently")]
DbWithV6 ==
    LET a == DnsPeer(1)  b == [v |-> "V6", ip |-> [i \in 1..16 |-> i], port |-> 8333] IN
    [x \in {a, b} |-> PeerRecord(x, "ConnectedRecently")]

DnsDatabases == {DbWithReachable(k) : k \in 0..NDnsPeers} \cup {DbTwoPorts, DbWithV6}

\* no session runs
SessionIdle ==
    /\ version_received = FALSE
    /\ verack_received = FALSE
    /\ handshake_complete = FALSE
    /\ seen_inventory = {}
    /\ getaddr_sent = FALSE
    /\ message_count = 0
    /\ session = "ok"
    /\ sent = <<>>
    /\ reads = <<>>

\* the responder is serving from a copy of the client's database
InitDns ==
    /\ SessionIdle
    /\ DbIdle
    /\ CodecIdle
    /\ CrawlIdle
    /\ CliIdle
    /\ peer_db \in DnsDatabases
    /\ dns_db = Some(peer_db)
    /\ dns_pc = "serving"
    /\ dns_req = <<>>
    /\ dns_replies = <<>>

NextDns ==
    \/ DnsRecvFails
    \/ \E req \in DnsDatagrams : DnsMalformed(req)
    \/ \E req \in DnsDatagrams, ok \in BOOLEAN : DnsAnswer(req, ok)
    \/ \E req \in DnsDatagrams, ok \in BOOLEAN : DnsNotImpl(req, ok)

SpecDns == InitDns /\ [][NextDns]_vars

(***************************************************************************)
(* Properties of the DNS responder                                         *)
(***************************************************************************)
\* the fields of a reply
ReplyTxid(d) == FromU16Be(d[1], d[2])
ReplyFlags(d) == FromU16Be(d[3], d[4])
QdCount(d) == FromU16Be(d[5], d[6])
AnCount(d) == FromU16Be(d[7], d[8])
NsCount(d) == FromU16Be(d[9], d[10])
ArCount(d) == FromU16Be(d[11], d[12])
\* what follows the header and the echoed question of the request, cut in 16-byte records
AnswerSection(d, req) == SubSeq(d, 13 + Len(QuestionOf(req)), Len(d))
Rdatas(d, req) ==
    LET a == AnswerSection(d, req) IN
    [i \in 1..(Len(a) \div 16) |-> SubSeq(a, 16 * i - 3, 16 * i)]
SuccessFlags == 33152       \* 0x8180
NotImplFlags == 33156       \* 0x8184
\* the last datagram was answered with the success shape
SuccessReply == Len(dns_replies) = 1 /\ ReplyFlags(dns_replies[1].datagram) = SuccessFlags
\* the peers of the responder's snapshot that were connected to recently
SnapshotReachable == {a \in DOMAIN dns_db[1] : dns_db[1][a].status = "ConnectedRecently"}
\* the last datagram is a query parse_dns_query accepts
WellFormedNow == dns_req # <<>> /\ parse_dns_query(dns_req) # None

\* C11: a success response answered from a snapshot with k ConnectedRecently peers
\* carries min(k, 10) answer records (16 bytes each, nothing else after the
\* question) and its ANCOUNT is that number.
C11_AnswerCount ==
    SuccessReply
    => \A d \in {dns_replies[1].datagram} :
          LET n == Min(Cardinality(SnapshotReachable), 10) IN
          /\ AnCount(d) = n
          /\ Len(AnswerSection(d, dns_req)) = 16 * n
          /\ \A i \in 1..n :
                SubSeq(AnswerSection(d, dns_req), 16 * i - 15, 16 * i - 4)
                    = <<192, 12, 0, 1, 0, 1, 0, 0, 0, 60, 0, 4>>

C11_Witness ==
    /\ SuccessReply
    /\ dns_replies[1].ok
    /\ Cardinality(SnapshotReachable) > 10
    /\ AnCount(dns_replies[1].datagram) = 10
    /\ Len(Rdatas(dns_replies[1].datagram, dns_req)) = 10

\* C12: in a success response every RDATA is the IPv4 address of a peer that is
\* ConnectedRecently in the snapshot, and no two answers carry the same address.
C12_OnlyReachableOnce ==
    SuccessReply
    => \A rdatas \in {Rdatas(dns_replies[1].datagram, dns_req)} :
          /\ \A i \in 1..Len(rdatas) :
                \E a \in SnapshotReachable : a.v = "V4" /\ a.ip = rdatas[i]
          /\ \A i, j \in 1..Len(rdatas) : rdatas[i] = rdatas[j] => i = j

\* C13: a query parse_dns_query accepts whose name is not the domain, or whose
\* type/class is not A/IN, is answered by one datagram: the request's id, flags
\* 0x8184, QDCOUNT 1, the other counts 0, the request's question, and nothing more.
C13_NotImplShape ==
    WellFormedNow
    => \A q \in {parse_dns_query(dns_req)[1]} :
          ~(q.is_a_query /\ q.qname = ConfiguredDomain)
          => /\ Len(dns_replies) = 1
             /\ \A d \in {dns_replies[1].datagram} :
                   /\ ReplyTxid(d) = q.txid
                   /\ ReplyFlags(d) = NotImplFlags
                   /\ QdCount(d) = 1
                   /\ AnCount(d) = 0 /\ NsCount(d) = 0 /\ ArCount(d) = 0
                   /\ SubSeq(d, 13, Len(d)) = QuestionOf(dns_req)

C13_Witness ==
    /\ WellFormedNow
    /\ parse_dns_query(dns_req)[1].is_a_query
    /\ parse_dns_query(dns_req)[1].qname = Ascii_other \o <<Dot>> \o Ascii_example \o <<Dot>> \o Ascii_com
    /\ Len(dns_replies) = 1
    /\ dns_replies[1].ok
    /\ ReplyFlags(dns_replies[1].datagram) = NotImplFlags

\* C14: an A/IN query whose name, written with its trailing dot, is the domain the
\* responder is configured with is answered with the success shape (0x8180).
C14_DomainAccepted ==
    WellFormedNow
    => \A q \in {parse_dns_query(dns_req)[1]} :
          q.is_a_query /\ q.qname \o <<Dot>> = ConfiguredDomain
          => Len(dns_replies) = 1 /\ ReplyFlags(dns_replies[1].datagram) = SuccessFlags

\* the 0-based index of the byte that ends the name of the first question, -1 when
\* the datagram ends before it
RECURSIVE NameEnd(_, _)
NameEnd(req, idx) ==
    IF idx >= Len(req) THEN -1
    ELSE IF req[idx + 1] = 0 THEN idx
    ELSE NameEnd(req, idx + 1 + req[idx + 1])
\* shorter than a header, a response (QR set), no question, or a question cut short
MalformedRequest(req) ==
    \/ Len(req) < 12
    \/ req[3] >= 128
    \/ req[5] = 0 /\ req[6] = 0
    \/ NameEnd(req, 12) = -1
    \/ NameEnd(req, 12) + 5 > Len(req)

\* C34: after a malformed request no datagram has been sent for it; the step that
\* received it leaves the responder in its loop and the peer database as it was, and
\* the responder can answer a request that comes next.
C34_MalformedDropped ==
    /\ [](dns_req # <<>> /\ MalformedRequest(dns_req) => dns_replies = <<>>)
    /\ [][dns_req' # dns_req /\ MalformedRequest(dns_req')
            => dns_pc' = "serving" /\ UNCHANGED <<peer_db, dns_db, db, file>>]_vars
    /\ [](dns_pc = "serving" /\ dns_req # <<>> /\ MalformedRequest(dns_req)
            => ENABLED (\E req \in WellFormedQueries : DnsNotImpl(req, TRUE)))

\* a datagram with QDCOUNT = 0 was received: nothing is sent, the responder serves on
C34_Witness ==
    /\ dns_pc = "serving"
    /\ dns_req = DnsQuery(4660, 256, 0, DottedLabels, 1, 1)
    /\ MalformedRequest(dns_req)
    /\ dns_replies = <<>>
    /\ dns_db = Some(peer_db)

(***************************************************************************)
(* The control loop (interactive.rs) with its background threads: the dns  *)
(* command starts the responder, the crawl command starts a database actor *)
(* and the probes                                                          *)
(***************************************************************************)
\* the databases the client holds when the commands are given
SeedDatabases ==
    {[a \in DbAddrs |->
        [PeerRecord(a, st[a]) EXCEPT
            !.services = IF st[a] = "ConnectedRecently" THEN Some(1) ELSE None]] :
        st \in [DbAddrs -> {"NeverTried", "ConnectedRecently"}]}

\* the requests resolvers send while the crawl runs
SeedDatagrams ==
    {DnsQuery(4660, 256, 1, DottedLabels, 1, 1),
     DnsQuery(4660, 256, 1, OtherLabels, 1, 1),
     DnsQuery(4660, 256, 0, DottedLabels, 1, 1)}

InitSeed ==
    /\ SessionIdle
    /\ DbIdle
    /\ CodecIdle
    /\ CrawlIdle
    /\ CliIdle
    /\ peer_db \in SeedDatabases
    /\ dns_db = None
    /\ dns_pc = "off"
    /\ dns_req = <<>>
    /\ dns_replies = <<>>

\* start_dns_server: the responder gets its own lock around a clone of client.peer_db
StartDns ==
    /\ dns_pc = "off"
    /\ dns_db' = Some(peer_db)
    /\ dns_pc' = "serving"
    /\ UNCHANGED <<peer_db, dns_req, dns_replies, session_vars, db_vars, codec_vars, crawl_vars, cli_vars>>

\* run_crawler_command: a channel, a database actor on a clone of client.peer_db,
\* and the probes holding the Sender
RunCrawler ==
    /\ db_pc = "done" /\ senders = {} /\ submitted = <<>>
    /\ DOMAIN peer_db # {}
    /\ db' = peer_db
    /\ db_pc' = "recv"
    /\ senders' = {"crawler"}
    /\ UNCHANGED <<file, chan, db_cmd, now, submitted, received,
                   session_vars, dns_vars, codec_vars, crawl_vars, cli_vars>>

\* crawl_peer_with_log: the probe of addr reports what its connect returned
Probe(addr, connected) ==
    /\ addr \in DOMAIN peer_db
    /\ \A i \in 1..Len(submitted) : submitted[i].cmd.addr # addr
    /\ Submit("crawler",
              [op |-> "UpdatePeerStatus", addr |-> addr, services |-> None,
               status |-> (IF connected THEN "ConnectedRecently" ELSE "Unreachable")])

NextSeed ==
    \/ StartDns
    \/ RunCrawler
    \/ \E addr \in DbAddrs, connected \in BOOLEAN : Probe(addr, connected)
    \/ DropSender("crawler")
    \/ DbRecv
    \/ DbSaveOpen
    \/ DbSaveOpenFails
    \/ DbSaveWrite
    \/ DbSaveWriteFails
    \/ DbExit
    \/ Tick
    \/ DnsRecvFails
    \/ \E req \in SeedDatagrams : DnsMalformed(req)
    \/ \E req \in SeedDatagrams, ok \in BOOLEAN : DnsAnswer(req, ok)
    \/ \E req \in SeedDatagrams, ok \in BOOLEAN : DnsNotImpl(req, ok)

SpecSeed == InitSeed /\ [][NextSeed]_vars

\* the database the actor holds once a crawl has started one, the client's before
CurrentDb == IF db_pc # "done" \/ received # <<>> THEN db ELSE peer_db
\* this step sent a success response
AnsweredNow == <<dns_req, dns_replies>>' # <<dns_req, dns_replies>> /\ SuccessReply'

\* C15: the responder answers from the current database: while it serves, its
\* candidates are the ConnectedRecently peers of the database the actor holds, and a
\* response carries only addresses that are ConnectedRecently there when it is sent.
C15_AnswersFromCurrentDb ==
    /\ [](dns_pc = "serving" /\ db_pc = "recv" => Reachable(dns_db[1]) = Reachable(CurrentDb))
    /\ [][AnsweredNow
            => \A rdatas \in {Rdatas(dns_replies'[1].datagram, dns_req')} :
                  \A i \in 1..Len(rdatas) :
                     \E a \in Reachable(CurrentDb) : a.ip = rdatas[i]]_vars

(***************************************************************************)
(* The database operations, as the actor applies them                      *)
(***************************************************************************)
\* this step applied a command with operation op
AppliedNow(op) ==
    /\ Len(received') = Len(received) + 1
    /\ received'[Len(received')].cmd.op = op
LastCmd == received[Len(received)].cmd

\* C16: a step that applies RegisterPeer(addr, services) leaves a record for addr
\* whose last_seen is the current time; if addr was absent the record has status
\* NeverTried and no last_connected.
C16_RegisterUpsert ==
    [][AppliedNow("RegisterPeer")
         => \A addr \in {LastCmd'.addr} :
               /\ addr \in DOMAIN db'
               /\ db'[addr].address = addr
               /\ db'[addr].last_seen = Some(now)
               /\ addr \notin DOMAIN db
                    => /\ db'[addr].status = "NeverTried"
                       /\ db'[addr].last_connected = None]_vars

\* an address registered at time 0 and registered again at a later time
C16_Witness ==
    /\ Len(received) = 2
    /\ \A i \in 1..2 : received[i].cmd.op = "RegisterPeer"
    /\ received[1].cmd.addr = received[2].cmd.addr
    /\ received[1].at < received[2].at
    /\ db[received[2].cmd.addr].last_seen = Some(received[2].at)

\* C17: a record whose services is Some(s) keeps a Some value in every later step:
\* RegisterPeer(addr, Some(t)) makes it Some(t), every other command (RegisterPeer
\* with None, UpdatePeerStatus, commands for other addresses) leaves it as it is.
C17_ServicesKept ==
    [][\A addr \in DOMAIN db :
          db[addr].services # None
            => /\ addr \in DOMAIN db'
               /\ IF /\ AppliedNow("RegisterPeer")
                     /\ LastCmd'.addr = addr
                     /\ LastCmd'.services # None
                  THEN db'[addr].services = LastCmd'.services
                  ELSE db'[addr].services = db[addr].services]_vars

\* services given at registration, then a registration of the same address without
C17_Witness ==
    /\ Len(received) = 2
    /\ \A i \in 1..2 : received[i].cmd.op = "RegisterPeer"
    /\ received[1].cmd.addr = received[2].cmd.addr
    /\ received[1].cmd.services # None
    /\ received[2].cmd.services = None
    /\ db[received[2].cmd.addr].services = received[1].cmd.services

\* C18: every record that has both timestamps has last_connected <= last_seen.
C18_ConnectedBeforeSeen ==
    \A addr \in DOMAIN db :
       db[addr].last_connected # None /\ db[addr].last_seen # None
         => db[addr].last_connected[1] <= db[addr].last_seen[1]

\* C19: a step that applies UpdatePeerStatus(addr, status) to a known addr sets the
\* record's status to status, sets last_connected to the current time when status is
\* ConnectedRecently and leaves it as it was otherwise, and changes neither the
\* record's address, last_seen and services nor any other record.
C19_UpdateFrame ==
    [][AppliedNow("UpdatePeerStatus") /\ LastCmd'.addr \in DOMAIN db
         => \A c \in {LastCmd'} :
               /\ DOMAIN db' = DOMAIN db
               /\ db'[c.addr].status = c.status
               /\ db'[c.addr].last_connected =
                     IF c.status = "ConnectedRecently" THEN Some(now)
                     ELSE db[c.addr].last_connected
               /\ db'[c.addr].last_seen = db[c.addr].last_seen
               /\ db'[c.addr].services = db[c.addr].services
               /\ db'[c.addr].address = db[c.addr].address
               /\ \A other \in DOMAIN db \ {c.addr} : db'[other] = db[other]]_vars

\* a peer connected to at time 0 is reported Unreachable at a later time, next to
\* another record: its stamp and its services are the old ones
C19_Witness ==
    /\ Len(received) >= 1
    /\ LastCmd.op = "UpdatePeerStatus"
    /\ LastCmd.status = "Unreachable"
    /\ received[Len(received)].at > 0
    /\ LastCmd.addr \in DOMAIN db
    /\ Cardinality(DOMAIN db) = 2
    /\ db[LastCmd.addr].status = "Unreachable"
    /\ db[LastCmd.addr].last_connected = Some(0)
    /\ db[LastCmd.addr].services # None

(***************************************************************************)
(* The wire decoders called on their own, on buffers of any length         *)
(***************************************************************************)
\* longest buffer given to a decoder
MaxCodecLen == 9

Zeros(n) == [i \in 1..n |-> 0]
\* buffers: a discriminator, up to two bytes that vary, zero bytes after them
CodecBuffers ==
    {<<>>} \cup
    {<<first>> \o low \o Zeros(n) :
        first \in {0, 1, 252, 253, 254, 255},
        low \in {<<>>} \cup {<<b>> : b \in {0, 1, 255}}
                       \cup {<<b, c>> : b \in {0, 1, 255}, c \in {0, 1, 255}},
        n \in 0..(MaxCodecLen - 3)}

\* counts up to MaxCodecCount, and the counts around the wider forms (the model's
\* integers end at 2^31 - 1)
MaxCodecCount == 300
CodecCounts ==
    (0..MaxCodecCount) \cup {65535, 65536, 65537, 16777215, 16777216, 2147483647}

\* most complete entries in a payload given to a message parser
MaxCodecItems == 3

\* count prefixes that are whole, declaring 0..d in one byte or a few counts in the
\* wider forms, and prefixes cut short (they are then the whole payload)
WholePrefixes(d) ==
    {<<n>> : n \in 0..d}
    \cup {<<253, 2, 0>>, <<253, 0, 1>>, <<254, 3, 0, 0, 0>>, <<255, 1, 0, 0, 0, 0, 0, 0, 0>>}
CutPrefixes == {<<253>>, <<253, 1>>, <<254, 1, 0>>, <<255, 1, 0, 0, 0, 0, 0, 0>>}

CodecInvItem(i) ==
    [inv_type_raw |-> <<1, 2, 1073741825, 7>>[(i % 4) + 1], hash |-> i]
CodecAddrEntry(i) ==
    [ip |-> IF i % 2 = 1 THEN V4Mapped(10, 0, 0, i) ELSE [j \in 1..16 |-> i],
     port |-> Port8333]

\* inv payloads: a count, k complete items, and stray bytes that are no item
CodecInvPayloads ==
    {[t |-> "inv", prefix |-> px, items |-> [i \in 1..k |-> CodecInvItem(i)], tail |-> tl] :
        px \in WholePrefixes(MaxCodecItems + 1), k \in 0..MaxCodecItems,
        tl \in {0, 2, InvItemSize - 1}}
    \cup {[t |-> "inv", prefix |-> px, items |-> <<>>, tail |-> 0] :
            px \in CutPrefixes \cup {<<>>}}

\* addr payloads, also with more complete entries than parse_addr_message shows
CodecAddrPayloads ==
    {[t |-> "addr", prefix |-> px, entries |-> [i \in 1..k |-> CodecAddrEntry(i)],
      tail |-> tl] :
        px \in WholePrefixes(AddrShowLimit + 3),
        k \in (0..MaxCodecItems) \cup ((AddrShowLimit - 1)..(AddrShowLimit + 2)),
        tl \in {0, 2, AddrEntrySize - 1}}
    \cup {[t |-> "addr", prefix |-> px, entries |-> <<>>, tail |-> 0] :
            px \in CutPrefixes \cup {<<>>}}

InitCodec ==
    /\ SessionIdle
    /\ DbIdle
    /\ DnsIdle
    /\ CrawlIdle
    /\ CliIdle
    /\ codec_out = None
    /\ \/ /\ codec_in \in CodecBuffers
          /\ codec_count = None
          /\ codec_payload = None
       \/ /\ codec_in = <<>>
          /\ codec_count \in {Some(n) : n \in CodecCounts}
          /\ codec_payload = None
       \/ /\ codec_in = <<>>
          /\ codec_count = None
          /\ codec_payload \in {Some(p) : p \in CodecInvPayloads \cup CodecAddrPayloads}

\* parse_compact_size(&data)
CallParseCompactSize ==
    /\ codec_out = None
    /\ codec_count = None /\ codec_payload = None
    /\ codec_out' = Some([fn |-> "parse_compact_size", ret |-> parse_compact_size(codec_in)])
    /\ UNCHANGED <<codec_in, codec_count, codec_payload, session_vars, db_vars, dns_vars, crawl_vars, cli_vars>>

\* the count prefix build_getdata_payload writes for codec_count items, given to
\* parse_compact_size
CallEncodeThenParse ==
    /\ codec_out = None
    /\ codec_count # None
    /\ \E prefix \in {CompactSizeOf(codec_count[1])} :
          /\ codec_in' = prefix
          /\ codec_out' = Some([fn |-> "round_trip", ret |-> parse_compact_size(prefix)])
    /\ UNCHANGED <<codec_count, codec_payload, session_vars, db_vars, dns_vars, crawl_vars, cli_vars>>

\* parse_inv_message(&payload)
CallParseInvMessage ==
    /\ codec_out = None
    /\ codec_payload # None
    /\ codec_payload[1].t = "inv"
    /\ codec_out' = Some([fn |-> "parse_inv_message", ret |-> parse_inv_message(codec_payload[1])])
    /\ UNCHANGED <<codec_in, codec_count, codec_payload, session_vars, db_vars, dns_vars, crawl_vars, cli_vars>>

\* parse_addr_message(&payload)
CallParseAddrMessage ==
    /\ codec_out = None
    /\ codec_payload # None
    /\ codec_payload[1].t = "addr"
    /\ codec_out' = Some([fn |-> "parse_addr_message", ret |-> parse_addr_message(codec_payload[1])])
    /\ UNCHANGED <<codec_in, codec_count, codec_payload, session_vars, db_vars, dns_vars, crawl_vars, cli_vars>>

NextCodec ==
    \/ CallParseCompactSize
    \/ CallEncodeThenParse
    \/ CallParseInvMessage
    \/ CallParseAddrMessage

SpecCodec == InitCodec /\ [][NextCodec]_vars

\* bytes a compact-size integer takes, by its first byte
AnnouncedWidth(first_byte) ==
    CASE first_byte = 253 -> 3
      [] first_byte = 254 -> 5
      [] first_byte = 255 -> 9
      [] OTHER -> 1
Returned(fn) == codec_out # None /\ codec_out[1].fn = fn

\* C20: parse_compact_size returns for every buffer, and for a buffer shorter than
\* the width its first byte announces it returns value 0 and consumed 1.
C20_ShortFallback ==
    Returned("parse_compact_size") /\ codec_in # <<>>
        /\ Len(codec_in) < AnnouncedWidth(codec_in[1])
      => codec_out[1].ret = <<0, 1>>

\* the buffer of test_parse_compact_size_invalid
C20_Witness ==
    /\ codec_in = <<253, 1>>
    /\ Returned("parse_compact_size")
    /\ codec_out[1].ret = <<0, 1>>

\* bytes of the minimal form of n (every count of the model is below 2^32)
MinimalWidth(n) ==
    CASE n <= 252 -> 1
      [] n <= 65535 -> 3
      [] OTHER -> 5

Declared(p) == parse_compact_size(p.prefix)
\* complete entries of `size` bytes after the prefix
Fitting(p, size) == (PayloadLen(p) - Declared(p)[2]) \div size

\* C22: parse_inv_message returns min(count, floor((len - prefix) / 36)) items and
\* parse_addr_message min(count, 10, floor((len - prefix) / 30)) addresses; they are
\* the first entries of the payload, decoded, in payload order, and lie inside it.
C22_ParsersStayInside ==
    /\ Returned("parse_inv_message")
         => \A p \in {codec_payload[1]}, out \in {codec_out[1].ret} :
               /\ Len(out) = Min(Declared(p)[1], Fitting(p, InvItemSize))
               /\ Declared(p)[2] + InvItemSize * Len(out) <= PayloadLen(p)
               /\ \A i \in 1..Len(out) :
                     out[i] = [inv_type |-> InventoryType_from_u32(p.items[i].inv_type_raw),
                               hash |-> p.items[i].hash]
    /\ Returned("parse_addr_message")
         => \A p \in {codec_payload[1]}, out \in {codec_out[1].ret} :
               /\ Len(out) = Min(Min(Declared(p)[1], 10), Fitting(p, AddrEntrySize))
               /\ Declared(p)[2] + AddrEntrySize * Len(out) <= PayloadLen(p)
               /\ \A i \in 1..Len(out) :
                     out[i] = SocketAddrOf(p.entries[i].ip, p.entries[i].port)

\* a count of three, two complete items and 35 bytes of a third
C22_Witness ==
    /\ Returned("parse_inv_message")
    /\ codec_payload[1].prefix = <<3>>
    /\ Len(codec_payload[1].items) = 2
    /\ codec_payload[1].tail = InvItemSize - 1
    /\ Len(codec_out[1].ret) = 2

\* C40: parse_addr_message returns at most 10 addresses; for a declared count above
\* 10 with at least 10 complete entries it returns exactly the first 10, decoded,
\* whatever follows them in the payload.
C40_AddrCappedAtTen ==
    Returned("parse_addr_message")
      => \A p \in {codec_payload[1]}, out \in {codec_out[1].ret} :
            /\ Len(out) <= 10
            /\ Declared(p)[1] > 10 /\ Len(p.entries) >= 10
                 => /\ Len(out) = 10
                    /\ \A i \in 1..10 : out[i] = SocketAddrOf(p.entries[i].ip, p.entries[i].port)

\* twelve entries declared and present: ten come back
C40_Witness ==
    /\ Returned("parse_addr_message")
    /\ Declared(codec_payload[1])[1] = 12
    /\ Len(codec_payload[1].entries) = 12
    /\ codec_payload[1].tail = 0
    /\ Len(codec_out[1].ret) = 10
    /\ codec_out[1].ret[10] = SocketAddrOf(CodecAddrEntry(10).ip, CodecAddrEntry(10).port)

(***************************************************************************)
(* The crawl command in detail (interactive.rs run_crawler_command,        *)
(* p2p/multhread.rs): every invocation has its own channel, its own        *)
(* database actor on a clone of client.peer_db, and one probe per peer;    *)
(* all actors rewrite the same file                                        *)
(***************************************************************************)
\* peers.truncate(4)
CrawlFanOut == 4
\* peers in the largest database a crawl is started from
NCrawlPeers == 5

CrawlDb(n) == [a \in {DnsPeer(i) : i \in 1..n} |-> PeerRecord(a, "NeverTried")]
CrawlDatabases == {CrawlDb(n) : n \in {0, 1, 2, NCrawlPeers}}

\* peer_db.peers.keys(): the addresses in the order the HashMap yields them
CandidateLists(peers) == {Ascend(DOMAIN peers), Reverse(Ascend(DOMAIN peers))}

\* a crawl that probes every candidate
Truncate_KeepsAll(list, n) == list

\* if peers.len() > 4 { peers.truncate(4) }
Truncate(list, n) == IF Len(list) > n THEN SubSeq(list, 1, n) ELSE list

\* a probe that reports every peer as connected
ProbeReport_AlwaysConnected(addr, connect) ==
    [op |-> "UpdatePeerStatus", addr |-> addr, services |-> None,
     status |-> "ConnectedRecently"]

\* the command crawl_peer_with_log sends after TcpStream::connect returned
ProbeReport(addr, connect) ==
    [op |-> "UpdatePeerStatus", addr |-> addr, services |-> None,
     status |-> (IF connect = "ok" THEN "ConnectedRecently" ELSE "Unreachable")]

\* a crawl that waits for one of its probes only
AllProbesDone_AnyOne(c) == \E k \in DOMAIN c.probe : c.probe[k].pc = "done"

\* for handle in handles { handle.await }: every probe task has finished
AllProbesDone(c) == \A k \in DOMAIN c.probe : c.probe[k].pc = "done"

InitCrawl ==
    /\ SessionIdle
    /\ DbIdle
    /\ CodecIdle
    /\ CrawlIdle
    /\ CliIdle
    /\ peer_db \in CrawlDatabases
    /\ dns_db = None
    /\ dns_pc = "off"
    /\ dns_req = <<>>
    /\ dns_replies = <<>>

CrawlFrame == UNCHANGED <<crawl_connected, session_vars, db_vars, dns_vars, codec_vars, cli_vars>>
CrawlFrameFile ==
    UNCHANGED <<db, chan, db_pc, db_cmd, senders, now, submitted, received,
                crawl_connected, session_vars, dns_vars, codec_vars, cli_vars>>

\* run_crawler_command, and the spawn loop of run_crawlers_with_log
RunCrawlerCommand(i, list) ==
    /\ crawls[i].pc = "idle"
    /\ list \in CandidateLists(peer_db)
    /\ crawls' =
          IF list = <<>>
          THEN [crawls EXCEPT ![i].pc = "no_peers"]
          ELSE [crawls EXCEPT ![i] =
                  [pc |-> "awaiting",
                   candidates |-> list,
                   peers |-> Truncate(list, CrawlFanOut),
                   probe |-> [k \in 1..Len(Truncate(list, CrawlFanOut)) |->
                                 [pc |-> "spawned", connect |-> "pending", wrote |-> <<>>]],
                   chan |-> <<>>,
                   db |-> peer_db,
                   actor |-> "recv",
                   sent |-> <<>>,
                   applied |-> <<>>]]
    /\ CrawlFrame

\* crawl_peer_with_log: TcpStream::connect(addr) returned; `wrote` is what the task
\* writes to the stream before it drops it
ProbeConnect(i, k, ok) ==
    /\ crawls[i].pc = "awaiting"
    /\ k \in DOMAIN crawls[i].probe
    /\ crawls[i].probe[k].pc = "spawned"
    /\ crawls' = [crawls EXCEPT ![i].probe[k] =
                    [pc |-> "sending", connect |-> (IF ok THEN "ok" ELSE "err"),
                     wrote |-> <<>>]]
    /\ CrawlFrame

\* crawl_peer_with_log: db_tx.send(..).await returned and the task ends
ProbeSend(i, k) ==
    /\ crawls[i].pc = "awaiting"
    /\ k \in DOMAIN crawls[i].probe
    /\ crawls[i].probe[k].pc = "sending"
    /\ Len(crawls[i].chan) < ChannelCapacity
    /\ \E cmd \in {ProbeReport(crawls[i].peers[k], crawls[i].probe[k].connect)} :
          crawls' = [crawls EXCEPT ![i].chan = Append(@, cmd),
                                   ![i].sent = Append(@, [probe |-> k, cmd |-> cmd]),
                                   ![i].probe[k].pc = "done"]
    /\ CrawlFrame

\* run_crawlers_with_log returns; its Sender and the probes' clones are dropped
CrawlReturn(i) ==
    /\ crawls[i].pc = "awaiting"
    /\ AllProbesDone(crawls[i])
    /\ crawls' = [crawls EXCEPT ![i].pc = "returned"]
    /\ CrawlFrame

\* the actor of invocation i: rx.recv() returned Some(cmd), applied to its db
ActorRecv(i) ==
    /\ crawls[i].actor = "recv"
    /\ crawls[i].chan # <<>>
    /\ \E r \in {mpsc_recv(crawls[i].chan)} :
          crawls' = [crawls EXCEPT ![i].chan = r.rest,
                                   ![i].db = ApplyCommand(@, r.cmd, now),
                                   ![i].applied = Append(@, r.cmd),
                                   ![i].actor = "save"]
    /\ CrawlFrame

\* save_to_file("peers.json") of invocation i: the open truncated the file
ActorSaveOpen(i) ==
    /\ crawls[i].actor = "save"
    /\ file' = [state |-> "empty", doc |-> {}]
    /\ crawls' = [crawls EXCEPT ![i].actor = "write"]
    /\ CrawlFrameFile

ActorSaveOpenFails(i) ==
    /\ crawls[i].actor = "save"
    /\ crawls' = [crawls EXCEPT ![i].actor = "recv"]
    /\ CrawlFrame

ActorSaveWrite(i) ==
    /\ crawls[i].actor = "write"
    /\ file' = WrittenFile(crawls[i].db)
    /\ crawls' = [crawls EXCEPT ![i].actor = "recv"]
    /\ CrawlFrameFile

ActorSaveWriteFails(i) ==
    /\ crawls[i].actor = "write"
    /\ file' \in {[state |-> "empty", doc |-> {}],
                  [state |-> "partial", doc |-> ToJson(crawls[i].db)]}
    /\ crawls' = [crawls EXCEPT ![i].actor = "recv"]
    /\ CrawlFrameFile

\* rx.recv() returned None: the crawl returned and the channel is empty
ActorExit(i) ==
    /\ crawls[i].actor = "recv"
    /\ crawls[i].chan = <<>>
    /\ crawls[i].pc = "returned"
    /\ crawls' = [crawls EXCEPT ![i].actor = "done"]
    /\ CrawlFrame

CrawlStep(i) ==
    \/ \E list \in CandidateLists(peer_db) : RunCrawlerCommand(i, list)
    \/ \E k \in 1..CrawlFanOut, ok \in BOOLEAN : ProbeConnect(i, k, ok)
    \/ \E k \in 1..CrawlFanOut : ProbeSend(i, k)
    \/ CrawlReturn(i)
    \/ ActorRecv(i)
    \/ ActorSaveOpen(i)
    \/ ActorSaveOpenFails(i)
    \/ ActorSaveWrite(i)
    \/ ActorSaveWriteFails(i)
    \/ ActorExit(i)

\* one invocation of the crawl command
NextCrawl == CrawlStep("first")

SpecCrawl == InitCrawl /\ [][NextCrawl]_vars

\* run_crawlers_with_log does return: awaiting finished tasks completes
SpecCrawlLive == SpecCrawl /\ WF_vars(CrawlReturn("first"))

Started(i) == crawls[i].pc \in {"awaiting", "returned"}
\* what probe k of invocation i has submitted
SentBy(i, k) == {n \in 1..Len(crawls[i].sent) : crawls[i].sent[n].probe = k}

\* C23: a probe has submitted exactly one command once it has terminated and none
\* before; the command is UpdatePeerStatus for the probe's own address, with
\* ConnectedRecently if and only if its connect succeeded and Unreachable otherwise;
\* and every command submitted is in the actor's channel or applied by it.
C23_OneReportPerProbe ==
    \A i \in Crawls :
       /\ \A k \in DOMAIN crawls[i].probe :
             /\ Cardinality(SentBy(i, k)) = (IF crawls[i].probe[k].pc = "done" THEN 1 ELSE 0)
             /\ \A n \in SentBy(i, k) :
                   /\ crawls[i].sent[n].cmd.op = "UpdatePeerStatus"
                   /\ crawls[i].sent[n].cmd.addr = crawls[i].peers[k]
                   /\ crawls[i].sent[n].cmd.status =
                         (IF crawls[i].probe[k].connect = "ok"
                          THEN "ConnectedRecently" ELSE "Unreachable")
                   /\ crawls[i].probe[k].connect \in {"ok", "err"}
       /\ Cmds(crawls[i].sent) = crawls[i].applied \o crawls[i].chan

\* four probes have terminated, some connected and some refused
C23_Witness ==
    /\ Len(crawls["first"].sent) = CrawlFanOut
    /\ \E k \in DOMAIN crawls["first"].probe : crawls["first"].probe[k].connect = "ok"
    /\ \E k \in DOMAIN crawls["first"].probe : crawls["first"].probe[k].connect = "err"
    /\ \A k \in DOMAIN crawls["first"].probe : crawls["first"].probe[k].pc = "done"

\* C24: an invocation has returned only if every probe it spawned has terminated
\* and has submitted its UpdatePeerStatus, and once all its probes have terminated
\* it returns.
C24_ReturnsAfterProbes ==
    /\ [](\A i \in Crawls :
             crawls[i].pc = "returned"
               => \A k \in DOMAIN crawls[i].probe :
                     /\ crawls[i].probe[k].pc = "done"
                     /\ \E n \in 1..Len(crawls[i].sent) :
                           /\ crawls[i].sent[n].probe = k
                           /\ crawls[i].sent[n].cmd.addr = crawls[i].peers[k])
    /\ (crawls["first"].pc = "awaiting"
          /\ \A k \in DOMAIN crawls["first"].probe : crawls["first"].probe[k].pc = "done")
         ~> (crawls["first"].pc = "returned")

\* the crawl of four peers has returned
C24_Witness ==
    /\ crawls["first"].pc = "returned"
    /\ Len(crawls["first"].peers) = CrawlFanOut
    /\ Len(crawls["first"].sent) = CrawlFanOut

\* C25: an invocation has at most four probes, one for each of the first four
\* candidates of its list, and every address connected to or reported is one of them.
C25_FirstFourOnly ==
    \A i \in Crawls :
       Started(i)
         => /\ Len(crawls[i].peers) <= 4
            /\ DOMAIN crawls[i].probe = 1..Len(crawls[i].peers)
            /\ Len(crawls[i].peers) = Min(4, Len(crawls[i].candidates))
            /\ \A k \in 1..Len(crawls[i].peers) : crawls[i].peers[k] = crawls[i].candidates[k]
            /\ \A n \in 1..Len(crawls[i].sent) :
                  \E k \in 1..Min(4, Len(crawls[i].candidates)) :
                     crawls[i].sent[n].cmd.addr = crawls[i].candidates[k]

\* five candidates, four probes, all of them finished
C25_Witness ==
    /\ Len(crawls["first"].candidates) > CrawlFanOut
    /\ Len(crawls["first"].peers) = CrawlFanOut
    /\ crawls["first"].pc = "returned"
    /\ crawls["first"].actor = "done"

\* C35: a probe that has terminated after a successful connect has put its peer
\* into the live crawl set and written one getaddr frame with an empty payload, and
\* nothing else; one whose connect failed has done neither.
C35_ProbeAsksForAddresses ==
    \A i \in Crawls : \A k \in DOMAIN crawls[i].probe :
       crawls[i].probe[k].pc = "done"
         => IF crawls[i].probe[k].connect = "ok"
            THEN /\ crawls[i].peers[k] \in crawl_connected
                 /\ crawls[i].probe[k].wrote = <<Frame("getaddr", EmptyPayload)>>
            ELSE /\ crawls[i].peers[k] \notin crawl_connected
                 /\ crawls[i].probe[k].wrote = <<>>

(***************************************************************************)
(* Two invocations of the crawl command at the same time                   *)
(***************************************************************************)
InitCrawl2 ==
    /\ SessionIdle
    /\ DbIdle
    /\ CodecIdle
    /\ CrawlIdle
    /\ CliIdle
    /\ peer_db \in {CrawlDb(1), CrawlDb(2)}
    /\ dns_db = None
    /\ dns_pc = "off"
    /\ dns_req = <<>>
    /\ dns_replies = <<>>

NextCrawl2 == \E i \in Crawls : CrawlStep(i)

SpecCrawl2 == InitCrawl2 /\ [][NextCrawl2]_vars

\* C26: the invocations' updates go through one database: the actors of any two
\* invocations hold the same database, and a file that has just been rewritten shows
\* every update applied so far by any invocation (its address is no longer NeverTried).
C26_OneDatabase ==
    /\ [](\A i, j \in Crawls :
             crawls[i].actor # "off" /\ crawls[j].actor # "off"
               => crawls[i].db = crawls[j].db)
    /\ [][file' # file /\ file'.state = "whole"
            => \A written \in {FromJson(file'.doc)} :
                  \A j \in Crawls : \A n \in 1..Len(crawls[j].applied) :
                     /\ crawls[j].applied[n].addr \in DOMAIN written
                     /\ written[crawls[j].applied[n].addr].status # "NeverTried"]_vars

(***************************************************************************)
(* The database file and the end of the actor                              *)
(***************************************************************************)
\* the end of the actor: fewer kinds of command, no clock, and database_task runs
\* on (rx.recv() and save_to_file return)
DrainCommands(s) ==
    {cmd \in DbCommands(s) : cmd.services = None /\ cmd.status \in {"NeverTried", "ConnectedRecently"}}
NextDrain ==
    \/ \E s \in Senders : \E cmd \in DrainCommands(s) : Submit(s, cmd)
    \/ \E s \in Senders : DropSender(s)
    \/ DbRecv
    \/ DbSaveOpen
    \/ DbSaveOpenFails
    \/ DbSaveWrite
    \/ DbSaveWriteFails
    \/ DbExit
SpecDrain ==
    /\ InitDb
    /\ [][NextDrain]_vars
    /\ WF_vars(DbRecv)
    /\ WF_vars(DbSaveOpen \/ DbSaveOpenFails)
    /\ WF_vars(DbSaveWrite \/ DbSaveWriteFails)
    /\ WF_vars(DbExit)

\* the databases the actor's db has been: after 0, 1, .. commands
PassedThrough == {AppliedInOrder(EmptyDb, SubSeq(received, 1, n)) : n \in 0..Len(received)}

\* C27: the file is never empty by truncation nor partially written: it is missing
\* (not yet written) or the complete text of a database the actor's db has been.
C27_FileNeverTorn ==
    /\ file.state \in {"missing", "whole"}
    /\ file.state = "whole" => \E d \in PassedThrough : file.doc = ToJson(d)

\* C29: a save whose write succeeded leaves in the file the text of the database
\* with every received command applied, the last one included; a command is applied
\* only between saves, and a save follows every command.
C29_SavedAfterEach ==
    /\ [][db_pc = "write" /\ db_pc' = "recv" /\ file'.state = "whole"
            => /\ file'.doc = ToJson(db')
               /\ FromJson(file'.doc) = AppliedInOrder(EmptyDb, received')]_vars
    /\ [][Len(received') > Len(received) => db_pc = "recv" /\ db_pc' = "save"]_vars

\* two commands applied, the second one's save written
C29_Witness ==
    /\ Len(received) = 2
    /\ db_pc = "recv"
    /\ file.state = "whole"
    /\ Cardinality(DOMAIN db) = 2
    /\ file.doc = ToJson(db)

\* C30: the actor has terminated only when every Sender is dropped, the channel is
\* empty and every submitted command has been received, in order, each followed by
\* its save; and once every Sender is dropped the actor terminates.
C30_DrainsThenExits ==
    /\ [](db_pc = "done"
            => /\ senders = {}
               /\ chan = <<>>
               /\ db_cmd = None
               /\ Cmds(received) = Cmds(submitted)
               /\ db = AppliedInOrder(EmptyDb, received))
    /\ [][db_pc' = "done" /\ db_pc # "done" => db_pc = "recv"]_vars
    /\ (senders = {}) ~> (db_pc = "done")

\* the senders were dropped with two commands queued; both were applied before the end
C30_Witness ==
    /\ db_pc = "done"
    /\ Len(received) = 2
    /\ Cardinality(DOMAIN db) = 2

(***************************************************************************)
(* load_from_file on the files save_to_file leaves, and on files it cannot *)
(* use                                                                     *)
(***************************************************************************)
LoadAddrs == {[v |-> "V4", ip |-> <<1, 2, 3, 4>>, port |-> 8333],
              [v |-> "V6", ip |-> [j \in 1..16 |-> j], port |-> 8333]}
LoadRecords(a) ==
    {[address |-> a, last_seen |-> Some(0), last_connected |-> None,
      status |-> "NeverTried", services |-> None],
     [address |-> a, last_seen |-> Some(1), last_connected |-> Some(1),
      status |-> "ConnectedRecently", services |-> Some(1)],
     [address |-> a, last_seen |-> Some(1), last_connected |-> Some(0),
      status |-> "Unreachable", services |-> None],
     [address |-> a, last_seen |-> Some(1), last_connected |-> None,
      status |-> "Banned", services |-> Some(2)]}
\* every database over some of LoadAddrs
LoadDatabases ==
    UNION {{d \in [S -> UNION {LoadRecords(a) : a \in S}] :
               \A a \in S : d[a] \in LoadRecords(a)} : S \in SUBSET LoadAddrs}

\* a file that cannot be opened or read, and one whose text is no database
UnusableFiles == {[state |-> "unreadable", doc |-> {}], [state |-> "garbage", doc |-> {}]}

\* the actor holds a database and is about to save it
InitLoad ==
    /\ SessionIdle
    /\ DnsIdle
    /\ CodecIdle
    /\ CrawlIdle
    /\ CliIdle
    /\ db \in LoadDatabases
    /\ file \in {NoFile} \cup UnusableFiles
    /\ chan = <<>>
    /\ db_pc = "save"
    /\ db_cmd = None
    /\ senders = {}
    /\ now = 0
    /\ submitted = <<>>
    /\ received = <<>>

\* PeerDatabase::load_from_file("peers.json")
CallLoadFromFile ==
    /\ codec_out = None
    /\ codec_out' = Some([fn |-> "load_from_file", arg |-> file, ret |-> load_from_file(file)])
    /\ UNCHANGED <<codec_in, codec_count, codec_payload, session_vars, db_vars, dns_vars, crawl_vars, cli_vars>>

NextLoad ==
    \/ DbSaveOpen
    \/ DbSaveOpenFails
    \/ DbSaveWrite
    \/ DbSaveWriteFails
    \/ CallLoadFromFile

SpecLoad == InitLoad /\ [][NextLoad]_vars

\* C28: load_from_file returns a database for every file: the database that
\* save_to_file wrote when the file is its complete text, the empty database when
\* the file is missing, unreadable, empty, partial or no serialisation.
C28_LoadNeverFails ==
    Returned("load_from_file")
      => /\ codec_out[1].arg.state = "whole" => codec_out[1].ret = db
         /\ codec_out[1].arg.state # "whole" => codec_out[1].ret = EmptyDb

\* a database with an IPv4 and an IPv6 peer, saved and loaded
C28_Witness ==
    /\ Returned("load_from_file")
    /\ codec_out[1].arg.state = "whole"
    /\ DOMAIN db = LoadAddrs
    /\ codec_out[1].ret = db

(***************************************************************************)
(* The database operations on a database that already holds records of     *)
(* every status                                                            *)
(***************************************************************************)
\* the records a database can hold for address a before the commands arrive
OpsRecords(a) ==
    {[address |-> a, last_seen |-> Some(0), last_connected |-> None,
      status |-> "NeverTried", services |-> None],
     [address |-> a, last_seen |-> Some(0), last_connected |-> Some(0),
      status |-> "ConnectedRecently", services |-> Some(1)],
     [address |-> a, last_seen |-> Some(0), last_connected |-> Some(0),
      status |-> "Unreachable", services |-> None],
     [address |-> a, last_seen |-> Some(0), last_connected |-> None,
      status |-> "Banned", services |-> Some(1)]}
OpsFirst == [v |-> "V4", ip |-> <<1, 2, 3, 4>>, port |-> 8333]
OpsSecond == [v |-> "V4", ip |-> <<5, 6, 7, 8>>, port |-> 8333]
\* the empty database, one record, and one record next to an Unreachable peer
OpsDatabases ==
    {EmptyDb}
      \cup {[a \in {OpsFirst} |-> r] : r \in OpsRecords(OpsFirst)}
      \cup {[a \in DbAddrs |-> IF a = OpsFirst THEN r
                               ELSE [address |-> a, last_seen |-> Some(0),
                                     last_connected |-> Some(0), status |-> "Unreachable",
                                     services |-> None]] : r \in OpsRecords(OpsFirst)}
OpsCommands(s) ==
    {cmd \in DbCommands(s) :
        cmd.services \in {None, Some(2)} /\ cmd.status \in {"NeverTried", "ConnectedRecently", "Unreachable"}}

\* database_task(db, rx, "peers.json") started on a database, at time 1
InitOps ==
    /\ SessionIdle
    /\ DnsIdle
    /\ CodecIdle
    /\ CrawlIdle
    /\ CliIdle
    /\ db \in OpsDatabases
    /\ file = NoFile
    /\ chan = <<>>
    /\ db_pc = "recv"
    /\ db_cmd = None
    /\ senders = Senders
    /\ now = 1
    /\ submitted = <<>>
    /\ received = <<>>

NextOps ==
    \/ \E s \in Senders : \E cmd \in OpsCommands(s) : Submit(s, cmd)
    \/ DbRecv
    \/ DbSaveOpen
    \/ DbSaveOpenFails
    \/ DbSaveWrite
    \/ DbSaveWriteFails

SpecOps == InitOps /\ [][NextOps]_vars

\* C31: no step removes an address from the database, and every record is stored
\* under its own address.
C31_NeverShrinks ==
    /\ [][DOMAIN db \subseteq DOMAIN db']_vars
    /\ [](\A a \in DOMAIN db : db[a].address = a)

\* a registration added a second address and an Unreachable report on the first
\* followed: both records are there
C31_Witness ==
    /\ Len(received) = 2
    /\ received[1].cmd.op = "RegisterPeer"
    /\ received[1].cmd.addr = OpsSecond
    /\ received[2].cmd.op = "UpdatePeerStatus"
    /\ received[2].cmd.addr = OpsFirst
    /\ received[2].cmd.status = "Unreachable"
    /\ DOMAIN db = {OpsFirst, OpsSecond}
    /\ db[OpsFirst].status = "Unreachable"
    /\ db[OpsSecond].address = OpsSecond

\* C37: a step that applies UpdatePeerStatus for an address the database does not
\* hold leaves the database as it was and goes on to the save; the save that follows
\* writes the text of that unchanged database.
C37_UnknownUpdateNoOp ==
    /\ [][AppliedNow("UpdatePeerStatus") /\ LastCmd'.addr \notin DOMAIN db
            => db' = db /\ db_pc' = "save"]_vars
    /\ [][(/\ db_pc = "write" /\ db_pc' = "recv" /\ file'.state = "whole"
           /\ db_cmd[1].op = "UpdatePeerStatus" /\ db_cmd[1].addr \notin DOMAIN db)
            => file'.doc = ToJson(db) /\ db' = db]_vars

\* a database holding one Banned peer was told the other address is connected: it
\* still holds the Banned peer alone, and the file was rewritten with it
C37_Witness ==
    /\ Len(received) = 1
    /\ LastCmd.op = "UpdatePeerStatus"
    /\ LastCmd.addr = OpsSecond
    /\ LastCmd.status = "ConnectedRecently"
    /\ DOMAIN db = {OpsFirst}
    /\ db[OpsFirst].status = "Banned"
    /\ db_pc = "recv"
    /\ file = WrittenFile(db)

\* C38: a step that applies RegisterPeer for an address the database holds leaves
\* that record's status and last_connected, every other record and the set of
\* addresses as they were.
C38_RegisterKeepsStatus ==
    [][AppliedNow("RegisterPeer") /\ LastCmd'.addr \in DOMAIN db
         => \A c \in {LastCmd'} :
               /\ DOMAIN db' = DOMAIN db
               /\ db'[c.addr].status = db[c.addr].status
               /\ db'[c.addr].last_connected = db[c.addr].last_connected
               /\ \A other \in DOMAIN db \ {c.addr} : db'[other] = db[other]]_vars

\* a ConnectedRecently peer, next to another record, is gossiped again with services
C38_Witness ==
    /\ Len(received) = 1
    /\ LastCmd.op = "RegisterPeer"
    /\ LastCmd.addr = OpsFirst
    /\ LastCmd.services = Some(2)
    /\ DOMAIN db = {OpsFirst, OpsSecond}
    /\ db[OpsFirst].status = "ConnectedRecently"
    /\ db[OpsFirst].last_connected = Some(0)
    /\ db[OpsFirst].last_seen = Some(1)
    /\ db[OpsFirst].services = Some(2)
    /\ db[OpsSecond].status = "Unreachable"

(***************************************************************************)
(* The end of InteractiveCli::run (interactive.rs): the exit command ends  *)
(* the command loop, then run joins its background threads                 *)
(***************************************************************************)
\* the dns command given at the prompt
DnsCommand == cli_pc = "prompt" /\ StartDns

\* Command::Exit: the client is stopped and self.running becomes false, the while
\* loop ends; the printer and the client thread are joined
ExitCommand ==
    /\ cli_pc = "prompt"
    /\ cli_pc' = "joining"
    /\ UNCHANGED <<session_vars, db_vars, dns_vars, codec_vars, crawl_vars>>

\* if let Some(dns) = self.dns_thread.take() { dns.join() }, then Ok(()): join
\* returns when the thread that runs run_dns_server has ended
JoinDnsThread ==
    /\ cli_pc = "joining"
    /\ dns_pc \in {"off", "failed"}
    /\ cli_pc' = "returned"
    /\ UNCHANGED <<session_vars, db_vars, dns_vars, codec_vars, crawl_vars>>

NextExit ==
    \/ DnsCommand
    \/ ExitCommand
    \/ JoinDnsThread
    \/ DnsRecvFails
    \/ \E req \in SeedDatagrams : DnsMalformed(req)
    \/ \E req \in SeedDatagrams, ok \in BOOLEAN : DnsAnswer(req, ok)
    \/ \E req \in SeedDatagrams, ok \in BOOLEAN : DnsNotImpl(req, ok)

\* the control loop's own steps are taken when they can be; whether recv_from ever
\* fails is up to the network
SpecExit == InitSeed /\ [][NextExit]_vars /\ WF_vars(JoinDnsThread)

\* C39: once the exit command has ended the command loop, run returns.
C39_ExitReturns == (cli_pc = "joining") ~> (cli_pc = "returned")

====
